---- MODULE Spec2Model ----
(***************************************************************************)
(* A model of the PNF_BOX_SEM command line interface: the read-eval loop   *)
(* of main.rs, the dispatcher of execute.rs (mode filter, prefix matcher,  *)
(* help branch, argument shaping) and the callbacks registered by          *)
(* build_command_registry in clicommands.rs, together with the global      *)
(* stores of network_config.rs they read and write.                        *)
(*                                                                         *)
(* Strings are TLA+ strings.  Whatever the program computes on the         *)
(* characters of a string (starts_with, split, trim, parse, to_string) is  *)
(* computed here on Spell[s], the characters of s.  A formatted string     *)
(* such as the prompt is the tuple of its pieces.  Option<T> is a sequence *)
(* of length at most one.  A HashMap is a function on its key set.         *)
(***************************************************************************)
EXTENDS Integers, Sequences, FiniteSets, TLC

\* ---- tables ----
\* Spelling of every string the model handles, character by character.
Spelling ==
    { <<"enable", <<"e", "n", "a", "b", "l", "e">>>>,
      <<"configure", <<"c", "o", "n", "f", "i", "g", "u", "r", "e">>>>,
      <<"interface", <<"i", "n", "t", "e", "r", "f", "a", "c", "e">>>>,
      <<"exit", <<"e", "x", "i", "t">>>>,
      <<"reload", <<"r", "e", "l", "o", "a", "d">>>>,
      <<"debug", <<"d", "e", "b", "u", "g">>>>,
      <<"undebug", <<"u", "n", "d", "e", "b", "u", "g">>>>,
      <<"hostname", <<"h", "o", "s", "t", "n", "a", "m", "e">>>>,
      <<"ifconfig", <<"i", "f", "c", "o", "n", "f", "i", "g">>>>,
      <<"write", <<"w", "r", "i", "t", "e">>>>,
      <<"copy", <<"c", "o", "p", "y">>>>,
      <<"help", <<"h", "e", "l", "p">>>>,
      <<"clock", <<"c", "l", "o", "c", "k">>>>,
      <<"ntp", <<"n", "t", "p">>>>,
      <<"ping", <<"p", "i", "n", "g">>>>,
      <<"show", <<"s", "h", "o", "w">>>>,
      <<"ip", <<"i", "p">>>>,
      <<"shutdown", <<"s", "h", "u", "t", "d", "o", "w", "n">>>>,
      <<"no", <<"n", "o">>>>,
      <<"router", <<"r", "o", "u", "t", "e", "r">>>>,
      <<"network", <<"n", "e", "t", "w", "o", "r", "k">>>>,
      <<"neighbor", <<"n", "e", "i", "g", "h", "b", "o", "r">>>>,
      <<"area", <<"a", "r", "e", "a">>>>,
      <<"passive-interface", <<"p", "a", "s", "s", "i", "v", "e", "-", "i", "n", "t", "e", "r", "f", "a", "c", "e">>>>,
      <<"distance", <<"d", "i", "s", "t", "a", "n", "c", "e">>>>,
      <<"default-information", <<"d", "e", "f", "a", "u", "l", "t", "-", "i", "n", "f", "o", "r", "m", "a", "t", "i", "o", "n">>>>,
      <<"router-id", <<"r", "o", "u", "t", "e", "r", "-", "i", "d">>>>,
      <<"clear", <<"c", "l", "e", "a", "r">>>>,
      <<"access-list", <<"a", "c", "c", "e", "s", "s", "-", "l", "i", "s", "t">>>>,
      <<"deny", <<"d", "e", "n", "y">>>>,
      <<"permit", <<"p", "e", "r", "m", "i", "t">>>>,
      <<"crypto", <<"c", "r", "y", "p", "t", "o">>>>,
      <<"set", <<"s", "e", "t">>>>,
      <<"service", <<"s", "e", "r", "v", "i", "c", "e">>>>,
      <<"tunnel", <<"t", "u", "n", "n", "e", "l">>>>,
      <<"virtual-template", <<"v", "i", "r", "t", "u", "a", "l", "-", "t", "e", "m", "p", "l", "a", "t", "e">>>>,
      <<"vlan", <<"v", "l", "a", "n">>>>,
      <<"switchport", <<"s", "w", "i", "t", "c", "h", "p", "o", "r", "t">>>>,
      <<"name", <<"n", "a", "m", "e">>>>,
      <<"state", <<"s", "t", "a", "t", "e">>>>,
      <<"terminal", <<"t", "e", "r", "m", "i", "n", "a", "l">>>>,
      <<"user", <<"u", "s", "e", "r">>>>,
      <<"all", <<"a", "l", "l">>>>,
      <<"memory", <<"m", "e", "m", "o", "r", "y">>>>,
      <<"running-config", <<"r", "u", "n", "n", "i", "n", "g", "-", "c", "o", "n", "f", "i", "g">>>>,
      <<"startup-config", <<"s", "t", "a", "r", "t", "u", "p", "-", "c", "o", "n", "f", "i", "g">>>>,
      <<"server", <<"s", "e", "r", "v", "e", "r">>>>,
      <<"master", <<"m", "a", "s", "t", "e", "r">>>>,
      <<"authenticate", <<"a", "u", "t", "h", "e", "n", "t", "i", "c", "a", "t", "e">>>>,
      <<"authentication-key", <<"a", "u", "t", "h", "e", "n", "t", "i", "c", "a", "t", "i", "o", "n", "-", "k", "e", "y">>>>,
      <<"trusted-key", <<"t", "r", "u", "s", "t", "e", "d", "-", "k", "e", "y">>>>,
      <<"access-lists", <<"a", "c", "c", "e", "s", "s", "-", "l", "i", "s", "t", "s">>>>,
      <<"version", <<"v", "e", "r", "s", "i", "o", "n">>>>,
      <<"processes", <<"p", "r", "o", "c", "e", "s", "s", "e", "s">>>>,
      <<"interfaces", <<"i", "n", "t", "e", "r", "f", "a", "c", "e", "s">>>>,
      <<"uptime", <<"u", "p", "t", "i", "m", "e">>>>,
      <<"login", <<"l", "o", "g", "i", "n">>>>,
      <<"address", <<"a", "d", "d", "r", "e", "s", "s">>>>,
      <<"ospf", <<"o", "s", "p", "f">>>>,
      <<"route", <<"r", "o", "u", "t", "e">>>>,
      <<"domain-name", <<"d", "o", "m", "a", "i", "n", "-", "n", "a", "m", "e">>>>,
      <<"originate", <<"o", "r", "i", "g", "i", "n", "a", "t", "e">>>>,
      <<"transform-set", <<"t", "r", "a", "n", "s", "f", "o", "r", "m", "-", "s", "e", "t">>>>,
      <<"password-encryption", <<"p", "a", "s", "s", "w", "o", "r", "d", "-", "e", "n", "c", "r", "y", "p", "t", "i", "o", "n">>>>,
      <<"mode", <<"m", "o", "d", "e">>>>,
      <<"source", <<"s", "o", "u", "r", "c", "e">>>>,
      <<"destination", <<"d", "e", "s", "t", "i", "n", "a", "t", "i", "o", "n">>>>,
      <<"protection", <<"p", "r", "o", "t", "e", "c", "t", "i", "o", "n">>>>,
      <<"ipsec", <<"i", "p", "s", "e", "c">>>>,
      <<"key", <<"k", "e", "y">>>>,
      <<"certificate", <<"c", "e", "r", "t", "i", "f", "i", "c", "a", "t", "e">>>>,
      <<"dynamic-map", <<"d", "y", "n", "a", "m", "i", "c", "-", "m", "a", "p">>>>,
      <<"engine", <<"e", "n", "g", "i", "n", "e">>>>,
      <<"map", <<"m", "a", "p">>>>,
      <<"yes", <<"y", "e", "s">>>>,
      <<"y", <<"y">>>>,
      <<"pw1", <<"p", "w", "1">>>>,
      <<"pw2", <<"p", "w", "2">>>>,
      <<"SEM", <<"S", "E", "M">>>>,
      <<"md5", <<"m", "d", "5">>>>,
      <<"ens33", <<"e", "n", "s", "3", "3">>>>,
      <<"10.0.0.255", <<"1", "0", ".", "0", ".", "0", ".", "2", "5", "5">>>>,
      <<"192.168.253.135", <<"1", "9", "2", ".", "1", "6", "8", ".", "2", "5", "3", ".", "1", "3", "5">>>>,
      <<"192.168.253.255", <<"1", "9", "2", ".", "1", "6", "8", ".", "2", "5", "3", ".", "2", "5", "5">>>>,
      <<"FastEthernet0/1", <<"F", "a", "s", "t", "E", "t", "h", "e", "r", "n", "e", "t", "0", "/", "1">>>>,
      <<"crypto key", <<"c", "r", "y", "p", "t", "o", " ", "k", "e", "y">>>>,
      <<"crypto certificate", <<"c", "r", "y", "p", "t", "o", " ", "c", "e", "r", "t", "i", "f", "i", "c", "a", "t", "e">>>>,
      <<"crypto dynamic-map", <<"c", "r", "y", "p", "t", "o", " ", "d", "y", "n", "a", "m", "i", "c", "-", "m", "a", "p">>>>,
      <<"crypto map", <<"c", "r", "y", "p", "t", "o", " ", "m", "a", "p">>>>,
      <<"crypto engine", <<"c", "r", "y", "p", "t", "o", " ", "e", "n", "g", "i", "n", "e">>>>,
      <<"crypto engine accelerator", <<"c", "r", "y", "p", "t", "o", " ", "e", "n", "g", "i", "n", "e", " ", "a", "c", "c", "e", "l", "e", "r", "a", "t", "o", "r">>>>,
      <<"engine accelerator", <<"e", "n", "g", "i", "n", "e", " ", "a", "c", "c", "e", "l", "e", "r", "a", "t", "o", "r">>>>,
      <<"map local-address", <<"m", "a", "p", " ", "l", "o", "c", "a", "l", "-", "a", "d", "d", "r", "e", "s", "s">>>>,
      <<"crypto ipsec security-association lifetime", <<"c", "r", "y", "p", "t", "o", " ", "i", "p", "s", "e", "c", " ", "s", "e", "c", "u", "r", "i", "t", "y", "-", "a", "s", "s", "o", "c", "i", "a", "t", "i", "o", "n", " ", "l", "i", "f", "e", "t", "i", "m", "e">>>>,
      <<"crypto ipsec transform-set", <<"c", "r", "y", "p", "t", "o", " ", "i", "p", "s", "e", "c", " ", "t", "r", "a", "n", "s", "f", "o", "r", "m", "-", "s", "e", "t">>>>,
      <<"ipsec security-association lifetime", <<"i", "p", "s", "e", "c", " ", "s", "e", "c", "u", "r", "i", "t", "y", "-", "a", "s", "s", "o", "c", "i", "a", "t", "i", "o", "n", " ", "l", "i", "f", "e", "t", "i", "m", "e">>>>,
      <<"ipsec transform-set", <<"i", "p", "s", "e", "c", " ", "t", "r", "a", "n", "s", "f", "o", "r", "m", "-", "s", "e", "t">>>>,
      <<"clear ip ospf process", <<"c", "l", "e", "a", "r", " ", "i", "p", " ", "o", "s", "p", "f", " ", "p", "r", "o", "c", "e", "s", "s">>>>,
      <<"ip route", <<"i", "p", " ", "r", "o", "u", "t", "e">>>>,
      <<"ip domain-name", <<"i", "p", " ", "d", "o", "m", "a", "i", "n", "-", "n", "a", "m", "e">>>>,
      <<"ip access-list", <<"i", "p", " ", "a", "c", "c", "e", "s", "s", "-", "l", "i", "s", "t">>>>,
      <<"ip address", <<"i", "p", " ", "a", "d", "d", "r", "e", "s", "s">>>>,
      <<"ip ospf", <<"i", "p", " ", "o", "s", "p", "f">>>>,
      <<"f0/0 - 24", <<"f", "0", "/", "0", " ", "-", " ", "2", "4">>>>,
      <<"f0/0", <<"f", "0", "/", "0">>>>,
      <<"24", <<"2", "4">>>>,
      <<" 24", <<" ", "2", "4">>>>,
      <<"f0/0 ", <<"f", "0", "/", "0", " ">>>>,
      <<"", <<>>>>,
      <<"-", <<"-">>>>,
      <<"range", <<"r", "a", "n", "g", "e">>>>,
      <<"10", <<"1", "0">>>>,
      <<"30", <<"3", "0">>>>,
      <<"00", <<"0", "0">>>>,
      <<"25", <<"2", "5">>>>,
      <<"0", <<"0">>>>,
      <<"255", <<"2", "5", "5">>>>,
      <<"192", <<"1", "9", "2">>>>,
      <<"168", <<"1", "6", "8">>>>,
      <<"1", <<"1">>>>,
      <<"253", <<"2", "5", "3">>>>,
      <<"135", <<"1", "3", "5">>>>,
      <<"10:30:00", <<"1", "0", ":", "3", "0", ":", "0", "0">>>>,
      <<"25:00:00", <<"2", "5", ":", "0", "0", ":", "0", "0">>>>,
      <<"255.255.255.0 192.168.1.1", <<"2", "5", "5", ".", "2", "5", "5", ".", "2", "5", "5", ".", "0", " ", "1", "9", "2", ".", "1", "6", "8", ".", "1", ".", "1">>>>,
      <<"eth0 192.168.1.1", <<"e", "t", "h", "0", " ", "1", "9", "2", ".", "1", "6", "8", ".", "1", ".", "1">>>>,
      <<"default_domain", <<"d", "e", "f", "a", "u", "l", "t", "_", "d", "o", "m", "a", "i", "n">>>>,
      <<"R\"1", <<"R", "\"", "1">>>>,
      <<"R\\1", <<"R", "\\", "1">>>>,
      <<"example.com", <<"e", "x", "a", "m", "p", "l", "e", ".", "c", "o", "m">>>>,
      <<"5e884898", <<"5", "e", "8", "8", "4", "8", "9", "8">>>>,
      <<"2bb80d53", <<"2", "b", "b", "8", "0", "d", "5", "3">>>>,
      <<"g0/0", <<"g", "0", "/", "0">>>>,
      <<"10.0.0.2", <<"1", "0", ".", "0", ".", "0", ".", "2">>>>,
      <<"prof1", <<"p", "r", "o", "f", "1">>>>,
      <<"e", <<"e">>>>,
      <<"xyz", <<"x", "y", "z">>>>,
      <<"en", <<"e", "n">>>>,
      <<"password", <<"p", "a", "s", "s", "w", "o", "r", "d">>>>,
      <<"secret", <<"s", "e", "c", "r", "e", "t">>>>,
      <<"foo", <<"f", "o", "o">>>>,
      <<"conf", <<"c", "o", "n", "f">>>>,
      <<"t", <<"t">>>>,
      <<"x", <<"x">>>>,
      <<"now", <<"n", "o", "w">>>>,
      <<"cli", <<"c", "l", "i">>>>,
      <<"ssh", <<"s", "s", "h">>>>,
      <<"R1", <<"R", "1">>>>,
      <<"eth0", <<"e", "t", "h", "0">>>>,
      <<"10.0.0.1", <<"1", "0", ".", "0", ".", "0", ".", "1">>>>,
      <<"up", <<"u", "p">>>>,
      <<"bad", <<"b", "a", "d">>>>,
      <<"wr", <<"w", "r">>>>,
      <<"m", <<"m">>>>,
      <<"run", <<"r", "u", "n">>>>,
      <<"file1", <<"f", "i", "l", "e", "1">>>>,
      <<"January", <<"J", "a", "n", "u", "a", "r", "y">>>>,
      <<"2025", <<"2", "0", "2", "5">>>>,
      <<"31", <<"3", "1">>>>,
      <<"February", <<"F", "e", "b", "r", "u", "a", "r", "y">>>>,
      <<"Jan", <<"J", "a", "n">>>>,
      <<"a", <<"a">>>>,
      <<"k1", <<"k", "1">>>>,
      <<"bar", <<"b", "a", "r">>>>,
      <<"10.0.0.0", <<"1", "0", ".", "0", ".", "0", ".", "0">>>>,
      <<"b", <<"b">>>>,
      <<"c", <<"c">>>>,
      <<"255.255.255.0", <<"2", "5", "5", ".", "2", "5", "5", ".", "2", "5", "5", ".", "0">>>>,
      <<"cost", <<"c", "o", "s", "t">>>>,
      <<"192.168.1.1", <<"1", "9", "2", ".", "1", "6", "8", ".", "1", ".", "1">>>>,
      <<"standard", <<"s", "t", "a", "n", "d", "a", "r", "d">>>>,
      <<"extended", <<"e", "x", "t", "e", "n", "d", "e", "d">>>>,
      <<"101", <<"1", "0", "1">>>>,
      <<"Extended", <<"E", "x", "t", "e", "n", "d", "e", "d">>>>,
      <<"m1", <<"m", "1">>>>,
      <<"0.0.0.255", <<"0", ".", "0", ".", "0", ".", "2", "5", "5">>>>,
      <<"authentication", <<"a", "u", "t", "h", "e", "n", "t", "i", "c", "a", "t", "i", "o", "n">>>>,
      <<"stub", <<"s", "t", "u", "b">>>>,
      <<"110", <<"1", "1", "0">>>>,
      <<"process", <<"p", "r", "o", "c", "e", "s", "s">>>>,
      <<"eq", <<"e", "q">>>>,
      <<"80", <<"8", "0">>>>,
      <<"profile", <<"p", "r", "o", "f", "i", "l", "e">>>>,
      <<"p1", <<"p", "1">>>>,
      <<"ts1", <<"t", "s", "1">>>>,
      <<"generate", <<"g", "e", "n", "e", "r", "a", "t", "e">>>>,
      <<"rsa", <<"r", "s", "a">>>>,
      <<"accelerator", <<"a", "c", "c", "e", "l", "e", "r", "a", "t", "o", "r">>>>,
      <<"ipv4", <<"i", "p", "v", "4">>>>,
      <<"int", <<"i", "n", "t">>>>,
      <<"r0", <<"r", "0">>>>,
      <<"f0/0-24", <<"f", "0", "/", "0", "-", "2", "4">>>>,
      <<"access", <<"a", "c", "c", "e", "s", "s">>>>,
      <<"hello", <<"h", "e", "l", "l", "o">>>>,
      <<"world", <<"w", "o", "r", "l", "d">>>>,
      <<"sh", <<"s", "h">>>>,
      <<"s", <<"s">>>>,
      <<"h", <<"h">>>>,
      <<"   ", <<" ", " ", " ">>>>,
      <<" enable ", <<" ", "e", "n", "a", "b", "l", "e", " ">>>>,
      <<"show ? ", <<"s", "h", "o", "w", " ", "?", " ">>>>,
      <<"?", <<"?">>>>,
      <<"enable password pw1", <<"e", "n", "a", "b", "l", "e", " ", "p", "a", "s", "s", "w", "o", "r", "d", " ", "p", "w", "1">>>>,
      <<"enable secret pw2", <<"e", "n", "a", "b", "l", "e", " ", "s", "e", "c", "r", "e", "t", " ", "p", "w", "2">>>>,
      <<"enable password", <<"e", "n", "a", "b", "l", "e", " ", "p", "a", "s", "s", "w", "o", "r", "d">>>>,
      <<"enable foo", <<"e", "n", "a", "b", "l", "e", " ", "f", "o", "o">>>>,
      <<"conf t", <<"c", "o", "n", "f", " ", "t">>>>,
      <<"configure terminal", <<"c", "o", "n", "f", "i", "g", "u", "r", "e", " ", "t", "e", "r", "m", "i", "n", "a", "l">>>>,
      <<"configure x", <<"c", "o", "n", "f", "i", "g", "u", "r", "e", " ", "x">>>>,
      <<"configure user", <<"c", "o", "n", "f", "i", "g", "u", "r", "e", " ", "u", "s", "e", "r">>>>,
      <<"configure terminal now", <<"c", "o", "n", "f", "i", "g", "u", "r", "e", " ", "t", "e", "r", "m", "i", "n", "a", "l", " ", "n", "o", "w">>>>,
      <<"exit cli", <<"e", "x", "i", "t", " ", "c", "l", "i">>>>,
      <<"exit  cli", <<"e", "x", "i", "t", " ", " ", "c", "l", "i">>>>,
      <<"exit ssh", <<"e", "x", "i", "t", " ", "s", "s", "h">>>>,
      <<"exit now", <<"e", "x", "i", "t", " ", "n", "o", "w">>>>,
      <<"debug all", <<"d", "e", "b", "u", "g", " ", "a", "l", "l">>>>,
      <<"debug x", <<"d", "e", "b", "u", "g", " ", "x">>>>,
      <<"debug all x", <<"d", "e", "b", "u", "g", " ", "a", "l", "l", " ", "x">>>>,
      <<"undebug all", <<"u", "n", "d", "e", "b", "u", "g", " ", "a", "l", "l">>>>,
      <<"hostname R1", <<"h", "o", "s", "t", "n", "a", "m", "e", " ", "R", "1">>>>,
      <<"ifconfig eth0 10.0.0.1 up", <<"i", "f", "c", "o", "n", "f", "i", "g", " ", "e", "t", "h", "0", " ", "1", "0", ".", "0", ".", "0", ".", "1", " ", "u", "p">>>>,
      <<"ifconfig eth0 bad up", <<"i", "f", "c", "o", "n", "f", "i", "g", " ", "e", "t", "h", "0", " ", "b", "a", "d", " ", "u", "p">>>>,
      <<"ifconfig eth0", <<"i", "f", "c", "o", "n", "f", "i", "g", " ", "e", "t", "h", "0">>>>,
      <<"write memory", <<"w", "r", "i", "t", "e", " ", "m", "e", "m", "o", "r", "y">>>>,
      <<"wr m", <<"w", "r", " ", "m">>>>,
      <<"write memory x", <<"w", "r", "i", "t", "e", " ", "m", "e", "m", "o", "r", "y", " ", "x">>>>,
      <<"copy running-config startup-config", <<"c", "o", "p", "y", " ", "r", "u", "n", "n", "i", "n", "g", "-", "c", "o", "n", "f", "i", "g", " ", "s", "t", "a", "r", "t", "u", "p", "-", "c", "o", "n", "f", "i", "g">>>>,
      <<"copy run", <<"c", "o", "p", "y", " ", "r", "u", "n">>>>,
      <<"copy run file1", <<"c", "o", "p", "y", " ", "r", "u", "n", " ", "f", "i", "l", "e", "1">>>>,
      <<"copy foo startup-config", <<"c", "o", "p", "y", " ", "f", "o", "o", " ", "s", "t", "a", "r", "t", "u", "p", "-", "c", "o", "n", "f", "i", "g">>>>,
      <<"copy foo", <<"c", "o", "p", "y", " ", "f", "o", "o">>>>,
      <<"clock set 10:30:00 1 January 2025", <<"c", "l", "o", "c", "k", " ", "s", "e", "t", " ", "1", "0", ":", "3", "0", ":", "0", "0", " ", "1", " ", "J", "a", "n", "u", "a", "r", "y", " ", "2", "0", "2", "5">>>>,
      <<"clock set 25:00:00 1 January 2025", <<"c", "l", "o", "c", "k", " ", "s", "e", "t", " ", "2", "5", ":", "0", "0", ":", "0", "0", " ", "1", " ", "J", "a", "n", "u", "a", "r", "y", " ", "2", "0", "2", "5">>>>,
      <<"clock set 10:30:00 31 February 2025", <<"c", "l", "o", "c", "k", " ", "s", "e", "t", " ", "1", "0", ":", "3", "0", ":", "0", "0", " ", "3", "1", " ", "F", "e", "b", "r", "u", "a", "r", "y", " ", "2", "0", "2", "5">>>>,
      <<"clock set 10:30:00 1 Jan 2025", <<"c", "l", "o", "c", "k", " ", "s", "e", "t", " ", "1", "0", ":", "3", "0", ":", "0", "0", " ", "1", " ", "J", "a", "n", " ", "2", "0", "2", "5">>>>,
      <<"clock set", <<"c", "l", "o", "c", "k", " ", "s", "e", "t">>>>,
      <<"clock set x", <<"c", "l", "o", "c", "k", " ", "s", "e", "t", " ", "x">>>>,
      <<"ntp server 10.0.0.1", <<"n", "t", "p", " ", "s", "e", "r", "v", "e", "r", " ", "1", "0", ".", "0", ".", "0", ".", "1">>>>,
      <<"ntp server bad", <<"n", "t", "p", " ", "s", "e", "r", "v", "e", "r", " ", "b", "a", "d">>>>,
      <<"ntp server", <<"n", "t", "p", " ", "s", "e", "r", "v", "e", "r">>>>,
      <<"ntp master", <<"n", "t", "p", " ", "m", "a", "s", "t", "e", "r">>>>,
      <<"ntp authenticate", <<"n", "t", "p", " ", "a", "u", "t", "h", "e", "n", "t", "i", "c", "a", "t", "e">>>>,
      <<"ntp a", <<"n", "t", "p", " ", "a">>>>,
      <<"ntp authentication-key 1 md5 k1", <<"n", "t", "p", " ", "a", "u", "t", "h", "e", "n", "t", "i", "c", "a", "t", "i", "o", "n", "-", "k", "e", "y", " ", "1", " ", "m", "d", "5", " ", "k", "1">>>>,
      <<"ntp authentication-key x md5 k1", <<"n", "t", "p", " ", "a", "u", "t", "h", "e", "n", "t", "i", "c", "a", "t", "i", "o", "n", "-", "k", "e", "y", " ", "x", " ", "m", "d", "5", " ", "k", "1">>>>,
      <<"ntp authentication-key 1", <<"n", "t", "p", " ", "a", "u", "t", "h", "e", "n", "t", "i", "c", "a", "t", "i", "o", "n", "-", "k", "e", "y", " ", "1">>>>,
      <<"ntp trusted-key 1", <<"n", "t", "p", " ", "t", "r", "u", "s", "t", "e", "d", "-", "k", "e", "y", " ", "1">>>>,
      <<"ntp trusted-key x", <<"n", "t", "p", " ", "t", "r", "u", "s", "t", "e", "d", "-", "k", "e", "y", " ", "x">>>>,
      <<"ntp foo bar", <<"n", "t", "p", " ", "f", "o", "o", " ", "b", "a", "r">>>>,
      <<"ping 10.0.0.0", <<"p", "i", "n", "g", " ", "1", "0", ".", "0", ".", "0", ".", "0">>>>,
      <<"ping a b", <<"p", "i", "n", "g", " ", "a", " ", "b">>>>,
      <<"show clock", <<"s", "h", "o", "w", " ", "c", "l", "o", "c", "k">>>>,
      <<"show version", <<"s", "h", "o", "w", " ", "v", "e", "r", "s", "i", "o", "n">>>>,
      <<"show interfaces", <<"s", "h", "o", "w", " ", "i", "n", "t", "e", "r", "f", "a", "c", "e", "s">>>>,
      <<"show ip", <<"s", "h", "o", "w", " ", "i", "p">>>>,
      <<"show ip route", <<"s", "h", "o", "w", " ", "i", "p", " ", "r", "o", "u", "t", "e">>>>,
      <<"show running-config", <<"s", "h", "o", "w", " ", "r", "u", "n", "n", "i", "n", "g", "-", "c", "o", "n", "f", "i", "g">>>>,
      <<"show run", <<"s", "h", "o", "w", " ", "r", "u", "n">>>>,
      <<"show startup-config", <<"s", "h", "o", "w", " ", "s", "t", "a", "r", "t", "u", "p", "-", "c", "o", "n", "f", "i", "g">>>>,
      <<"show ntp x y", <<"s", "h", "o", "w", " ", "n", "t", "p", " ", "x", " ", "y">>>>,
      <<"show processes x", <<"s", "h", "o", "w", " ", "p", "r", "o", "c", "e", "s", "s", "e", "s", " ", "x">>>>,
      <<"show crypto", <<"s", "h", "o", "w", " ", "c", "r", "y", "p", "t", "o">>>>,
      <<"show crypto key", <<"s", "h", "o", "w", " ", "c", "r", "y", "p", "t", "o", " ", "k", "e", "y">>>>,
      <<"show c", <<"s", "h", "o", "w", " ", "c">>>>,
      <<"show foo bar", <<"s", "h", "o", "w", " ", "f", "o", "o", " ", "b", "a", "r">>>>,
      <<"ip address 10.0.0.1 255.255.255.0", <<"i", "p", " ", "a", "d", "d", "r", "e", "s", "s", " ", "1", "0", ".", "0", ".", "0", ".", "1", " ", "2", "5", "5", ".", "2", "5", "5", ".", "2", "5", "5", ".", "0">>>>,
      <<"ip address bad 255.255.255.0", <<"i", "p", " ", "a", "d", "d", "r", "e", "s", "s", " ", "b", "a", "d", " ", "2", "5", "5", ".", "2", "5", "5", ".", "2", "5", "5", ".", "0">>>>,
      <<"ip address 10.0.0.1", <<"i", "p", " ", "a", "d", "d", "r", "e", "s", "s", " ", "1", "0", ".", "0", ".", "0", ".", "1">>>>,
      <<"ip ospf cost 10", <<"i", "p", " ", "o", "s", "p", "f", " ", "c", "o", "s", "t", " ", "1", "0">>>>,
      <<"ip ospf cost x", <<"i", "p", " ", "o", "s", "p", "f", " ", "c", "o", "s", "t", " ", "x">>>>,
      <<"ip route 10.0.0.0 255.255.255.0 192.168.1.1", <<"i", "p", " ", "r", "o", "u", "t", "e", " ", "1", "0", ".", "0", ".", "0", ".", "0", " ", "2", "5", "5", ".", "2", "5", "5", ".", "2", "5", "5", ".", "0", " ", "1", "9", "2", ".", "1", "6", "8", ".", "1", ".", "1">>>>,
      <<"ip route 10.0.0.0 255.255.255.0 eth0", <<"i", "p", " ", "r", "o", "u", "t", "e", " ", "1", "0", ".", "0", ".", "0", ".", "0", " ", "2", "5", "5", ".", "2", "5", "5", ".", "2", "5", "5", ".", "0", " ", "e", "t", "h", "0">>>>,
      <<"ip route 10.0.0.0 255.255.255.0 eth0 192.168.1.1", <<"i", "p", " ", "r", "o", "u", "t", "e", " ", "1", "0", ".", "0", ".", "0", ".", "0", " ", "2", "5", "5", ".", "2", "5", "5", ".", "2", "5", "5", ".", "0", " ", "e", "t", "h", "0", " ", "1", "9", "2", ".", "1", "6", "8", ".", "1", ".", "1">>>>,
      <<"ip route bad 255.255.255.0 eth0", <<"i", "p", " ", "r", "o", "u", "t", "e", " ", "b", "a", "d", " ", "2", "5", "5", ".", "2", "5", "5", ".", "2", "5", "5", ".", "0", " ", "e", "t", "h", "0">>>>,
      <<"ip route 10.0.0.0 255.255.255.0", <<"i", "p", " ", "r", "o", "u", "t", "e", " ", "1", "0", ".", "0", ".", "0", ".", "0", " ", "2", "5", "5", ".", "2", "5", "5", ".", "2", "5", "5", ".", "0">>>>,
      <<"ip domain-name example.com", <<"i", "p", " ", "d", "o", "m", "a", "i", "n", "-", "n", "a", "m", "e", " ", "e", "x", "a", "m", "p", "l", "e", ".", "c", "o", "m">>>>,
      <<"ip access-list standard 10", <<"i", "p", " ", "a", "c", "c", "e", "s", "s", "-", "l", "i", "s", "t", " ", "s", "t", "a", "n", "d", "a", "r", "d", " ", "1", "0">>>>,
      <<"ip access-list extended 101", <<"i", "p", " ", "a", "c", "c", "e", "s", "s", "-", "l", "i", "s", "t", " ", "e", "x", "t", "e", "n", "d", "e", "d", " ", "1", "0", "1">>>>,
      <<"ip access-list Extended 101", <<"i", "p", " ", "a", "c", "c", "e", "s", "s", "-", "l", "i", "s", "t", " ", "E", "x", "t", "e", "n", "d", "e", "d", " ", "1", "0", "1">>>>,
      <<"ip access-list foo 10", <<"i", "p", " ", "a", "c", "c", "e", "s", "s", "-", "l", "i", "s", "t", " ", "f", "o", "o", " ", "1", "0">>>>,
      <<"ip access-list standard", <<"i", "p", " ", "a", "c", "c", "e", "s", "s", "-", "l", "i", "s", "t", " ", "s", "t", "a", "n", "d", "a", "r", "d">>>>,
      <<"ip foo bar", <<"i", "p", " ", "f", "o", "o", " ", "b", "a", "r">>>>,
      <<"no shutdown", <<"n", "o", " ", "s", "h", "u", "t", "d", "o", "w", "n">>>>,
      <<"no ntp server 10.0.0.1", <<"n", "o", " ", "n", "t", "p", " ", "s", "e", "r", "v", "e", "r", " ", "1", "0", ".", "0", ".", "0", ".", "1">>>>,
      <<"no ntp server 192.168.1.1", <<"n", "o", " ", "n", "t", "p", " ", "s", "e", "r", "v", "e", "r", " ", "1", "9", "2", ".", "1", "6", "8", ".", "1", ".", "1">>>>,
      <<"no ntp", <<"n", "o", " ", "n", "t", "p">>>>,
      <<"no crypto", <<"n", "o", " ", "c", "r", "y", "p", "t", "o">>>>,
      <<"no crypto dynamic-map m1", <<"n", "o", " ", "c", "r", "y", "p", "t", "o", " ", "d", "y", "n", "a", "m", "i", "c", "-", "m", "a", "p", " ", "m", "1">>>>,
      <<"no crypto map m1", <<"n", "o", " ", "c", "r", "y", "p", "t", "o", " ", "m", "a", "p", " ", "m", "1">>>>,
      <<"no foo bar", <<"n", "o", " ", "f", "o", "o", " ", "b", "a", "r">>>>,
      <<"router ospf 1", <<"r", "o", "u", "t", "e", "r", " ", "o", "s", "p", "f", " ", "1">>>>,
      <<"router ospf 0", <<"r", "o", "u", "t", "e", "r", " ", "o", "s", "p", "f", " ", "0">>>>,
      <<"router ospf x", <<"r", "o", "u", "t", "e", "r", " ", "o", "s", "p", "f", " ", "x">>>>,
      <<"router ospf", <<"r", "o", "u", "t", "e", "r", " ", "o", "s", "p", "f">>>>,
      <<"network 10.0.0.0 0.0.0.255 area 0", <<"n", "e", "t", "w", "o", "r", "k", " ", "1", "0", ".", "0", ".", "0", ".", "0", " ", "0", ".", "0", ".", "0", ".", "2", "5", "5", " ", "a", "r", "e", "a", " ", "0">>>>,
      <<"network 10.0.0.0 0.0.0.255 area x", <<"n", "e", "t", "w", "o", "r", "k", " ", "1", "0", ".", "0", ".", "0", ".", "0", " ", "0", ".", "0", ".", "0", ".", "2", "5", "5", " ", "a", "r", "e", "a", " ", "x">>>>,
      <<"network 10.0.0.0", <<"n", "e", "t", "w", "o", "r", "k", " ", "1", "0", ".", "0", ".", "0", ".", "0">>>>,
      <<"neighbor 10.0.0.1", <<"n", "e", "i", "g", "h", "b", "o", "r", " ", "1", "0", ".", "0", ".", "0", ".", "1">>>>,
      <<"neighbor 10.0.0.1 cost 10", <<"n", "e", "i", "g", "h", "b", "o", "r", " ", "1", "0", ".", "0", ".", "0", ".", "1", " ", "c", "o", "s", "t", " ", "1", "0">>>>,
      <<"neighbor 10.0.0.1 cost x", <<"n", "e", "i", "g", "h", "b", "o", "r", " ", "1", "0", ".", "0", ".", "0", ".", "1", " ", "c", "o", "s", "t", " ", "x">>>>,
      <<"neighbor bad", <<"n", "e", "i", "g", "h", "b", "o", "r", " ", "b", "a", "d">>>>,
      <<"area 0 authentication", <<"a", "r", "e", "a", " ", "0", " ", "a", "u", "t", "h", "e", "n", "t", "i", "c", "a", "t", "i", "o", "n">>>>,
      <<"area 0 stub x", <<"a", "r", "e", "a", " ", "0", " ", "s", "t", "u", "b", " ", "x">>>>,
      <<"area 0", <<"a", "r", "e", "a", " ", "0">>>>,
      <<"passive-interface g0/0", <<"p", "a", "s", "s", "i", "v", "e", "-", "i", "n", "t", "e", "r", "f", "a", "c", "e", " ", "g", "0", "/", "0">>>>,
      <<"distance 110", <<"d", "i", "s", "t", "a", "n", "c", "e", " ", "1", "1", "0">>>>,
      <<"distance x", <<"d", "i", "s", "t", "a", "n", "c", "e", " ", "x">>>>,
      <<"default-information originate", <<"d", "e", "f", "a", "u", "l", "t", "-", "i", "n", "f", "o", "r", "m", "a", "t", "i", "o", "n", " ", "o", "r", "i", "g", "i", "n", "a", "t", "e">>>>,
      <<"router-id 10.0.0.1", <<"r", "o", "u", "t", "e", "r", "-", "i", "d", " ", "1", "0", ".", "0", ".", "0", ".", "1">>>>,
      <<"clear ip", <<"c", "l", "e", "a", "r", " ", "i", "p">>>>,
      <<"access-list 10 permit ip 10.0.0.0", <<"a", "c", "c", "e", "s", "s", "-", "l", "i", "s", "t", " ", "1", "0", " ", "p", "e", "r", "m", "i", "t", " ", "i", "p", " ", "1", "0", ".", "0", ".", "0", ".", "0">>>>,
      <<"access-list 10 permit ip", <<"a", "c", "c", "e", "s", "s", "-", "l", "i", "s", "t", " ", "1", "0", " ", "p", "e", "r", "m", "i", "t", " ", "i", "p">>>>,
      <<"access-list 10 permit ip bad", <<"a", "c", "c", "e", "s", "s", "-", "l", "i", "s", "t", " ", "1", "0", " ", "p", "e", "r", "m", "i", "t", " ", "i", "p", " ", "b", "a", "d">>>>,
      <<"access-list 10", <<"a", "c", "c", "e", "s", "s", "-", "l", "i", "s", "t", " ", "1", "0">>>>,
      <<"deny 10.0.0.0", <<"d", "e", "n", "y", " ", "1", "0", ".", "0", ".", "0", ".", "0">>>>,
      <<"deny 10.0.0.0 0.0.0.255", <<"d", "e", "n", "y", " ", "1", "0", ".", "0", ".", "0", ".", "0", " ", "0", ".", "0", ".", "0", ".", "2", "5", "5">>>>,
      <<"deny bad", <<"d", "e", "n", "y", " ", "b", "a", "d">>>>,
      <<"deny ip 10.0.0.0 10.0.0.1", <<"d", "e", "n", "y", " ", "i", "p", " ", "1", "0", ".", "0", ".", "0", ".", "0", " ", "1", "0", ".", "0", ".", "0", ".", "1">>>>,
      <<"deny ip 10.0.0.0 eq 80 10.0.0.1", <<"d", "e", "n", "y", " ", "i", "p", " ", "1", "0", ".", "0", ".", "0", ".", "0", " ", "e", "q", " ", "8", "0", " ", "1", "0", ".", "0", ".", "0", ".", "1">>>>,
      <<"permit 10.0.0.0", <<"p", "e", "r", "m", "i", "t", " ", "1", "0", ".", "0", ".", "0", ".", "0">>>>,
      <<"permit bad", <<"p", "e", "r", "m", "i", "t", " ", "b", "a", "d">>>>,
      <<"permit ip 10.0.0.0 10.0.0.1", <<"p", "e", "r", "m", "i", "t", " ", "i", "p", " ", "1", "0", ".", "0", ".", "0", ".", "0", " ", "1", "0", ".", "0", ".", "0", ".", "1">>>>,
      <<"permit ip 10.0.0.0 eq 80 10.0.0.1", <<"p", "e", "r", "m", "i", "t", " ", "i", "p", " ", "1", "0", ".", "0", ".", "0", ".", "0", " ", "e", "q", " ", "8", "0", " ", "1", "0", ".", "0", ".", "0", ".", "1">>>>,
      <<"crypto ipsec", <<"c", "r", "y", "p", "t", "o", " ", "i", "p", "s", "e", "c">>>>,
      <<"crypto ipsec profile p1", <<"c", "r", "y", "p", "t", "o", " ", "i", "p", "s", "e", "c", " ", "p", "r", "o", "f", "i", "l", "e", " ", "p", "1">>>>,
      <<"crypto ipsec profile", <<"c", "r", "y", "p", "t", "o", " ", "i", "p", "s", "e", "c", " ", "p", "r", "o", "f", "i", "l", "e">>>>,
      <<"crypto ipsec transform-set ts1 x", <<"c", "r", "y", "p", "t", "o", " ", "i", "p", "s", "e", "c", " ", "t", "r", "a", "n", "s", "f", "o", "r", "m", "-", "s", "e", "t", " ", "t", "s", "1", " ", "x">>>>,
      <<"crypto key generate rsa", <<"c", "r", "y", "p", "t", "o", " ", "k", "e", "y", " ", "g", "e", "n", "e", "r", "a", "t", "e", " ", "r", "s", "a">>>>,
      <<"crypto key generate", <<"c", "r", "y", "p", "t", "o", " ", "k", "e", "y", " ", "g", "e", "n", "e", "r", "a", "t", "e">>>>,
      <<"crypto dynamic-map m1 1", <<"c", "r", "y", "p", "t", "o", " ", "d", "y", "n", "a", "m", "i", "c", "-", "m", "a", "p", " ", "m", "1", " ", "1">>>>,
      <<"crypto dynamic-map m1 x", <<"c", "r", "y", "p", "t", "o", " ", "d", "y", "n", "a", "m", "i", "c", "-", "m", "a", "p", " ", "m", "1", " ", "x">>>>,
      <<"crypto map m1 1", <<"c", "r", "y", "p", "t", "o", " ", "m", "a", "p", " ", "m", "1", " ", "1">>>>,
      <<"crypto map m1", <<"c", "r", "y", "p", "t", "o", " ", "m", "a", "p", " ", "m", "1">>>>,
      <<"crypto engine accelerator 1", <<"c", "r", "y", "p", "t", "o", " ", "e", "n", "g", "i", "n", "e", " ", "a", "c", "c", "e", "l", "e", "r", "a", "t", "o", "r", " ", "1">>>>,
      <<"crypto foo bar", <<"c", "r", "y", "p", "t", "o", " ", "f", "o", "o", " ", "b", "a", "r">>>>,
      <<"set transform-set ts1", <<"s", "e", "t", " ", "t", "r", "a", "n", "s", "f", "o", "r", "m", "-", "s", "e", "t", " ", "t", "s", "1">>>>,
      <<"set transform-set", <<"s", "e", "t", " ", "t", "r", "a", "n", "s", "f", "o", "r", "m", "-", "s", "e", "t">>>>,
      <<"service password-encryption", <<"s", "e", "r", "v", "i", "c", "e", " ", "p", "a", "s", "s", "w", "o", "r", "d", "-", "e", "n", "c", "r", "y", "p", "t", "i", "o", "n">>>>,
      <<"service password-encryption x", <<"s", "e", "r", "v", "i", "c", "e", " ", "p", "a", "s", "s", "w", "o", "r", "d", "-", "e", "n", "c", "r", "y", "p", "t", "i", "o", "n", " ", "x">>>>,
      <<"tunnel mode ipsec ipv4", <<"t", "u", "n", "n", "e", "l", " ", "m", "o", "d", "e", " ", "i", "p", "s", "e", "c", " ", "i", "p", "v", "4">>>>,
      <<"tunnel mode", <<"t", "u", "n", "n", "e", "l", " ", "m", "o", "d", "e">>>>,
      <<"tunnel source g0/0", <<"t", "u", "n", "n", "e", "l", " ", "s", "o", "u", "r", "c", "e", " ", "g", "0", "/", "0">>>>,
      <<"tunnel destination 10.0.0.1", <<"t", "u", "n", "n", "e", "l", " ", "d", "e", "s", "t", "i", "n", "a", "t", "i", "o", "n", " ", "1", "0", ".", "0", ".", "0", ".", "1">>>>,
      <<"tunnel destination bad", <<"t", "u", "n", "n", "e", "l", " ", "d", "e", "s", "t", "i", "n", "a", "t", "i", "o", "n", " ", "b", "a", "d">>>>,
      <<"tunnel destination", <<"t", "u", "n", "n", "e", "l", " ", "d", "e", "s", "t", "i", "n", "a", "t", "i", "o", "n">>>>,
      <<"tunnel protection ipsec profile p1", <<"t", "u", "n", "n", "e", "l", " ", "p", "r", "o", "t", "e", "c", "t", "i", "o", "n", " ", "i", "p", "s", "e", "c", " ", "p", "r", "o", "f", "i", "l", "e", " ", "p", "1">>>>,
      <<"tunnel foo bar", <<"t", "u", "n", "n", "e", "l", " ", "f", "o", "o", " ", "b", "a", "r">>>>,
      <<"virtual-template 1", <<"v", "i", "r", "t", "u", "a", "l", "-", "t", "e", "m", "p", "l", "a", "t", "e", " ", "1">>>>,
      <<"virtual-template x", <<"v", "i", "r", "t", "u", "a", "l", "-", "t", "e", "m", "p", "l", "a", "t", "e", " ", "x">>>>,
      <<"interface g0/0", <<"i", "n", "t", "e", "r", "f", "a", "c", "e", " ", "g", "0", "/", "0">>>>,
      <<"int g0/0", <<"i", "n", "t", " ", "g", "0", "/", "0">>>>,
      <<"int eth0", <<"i", "n", "t", " ", "e", "t", "h", "0">>>>,
      <<"int r0", <<"i", "n", "t", " ", "r", "0">>>>,
      <<"interface range f0/0 - 24", <<"i", "n", "t", "e", "r", "f", "a", "c", "e", " ", "r", "a", "n", "g", "e", " ", "f", "0", "/", "0", " ", "-", " ", "2", "4">>>>,
      <<"interface range f0/0-24", <<"i", "n", "t", "e", "r", "f", "a", "c", "e", " ", "r", "a", "n", "g", "e", " ", "f", "0", "/", "0", "-", "2", "4">>>>,
      <<"interface range f0/0", <<"i", "n", "t", "e", "r", "f", "a", "c", "e", " ", "r", "a", "n", "g", "e", " ", "f", "0", "/", "0">>>>,
      <<"interface range", <<"i", "n", "t", "e", "r", "f", "a", "c", "e", " ", "r", "a", "n", "g", "e">>>>,
      <<"interface range - 24", <<"i", "n", "t", "e", "r", "f", "a", "c", "e", " ", "r", "a", "n", "g", "e", " ", "-", " ", "2", "4">>>>,
      <<"vlan 10", <<"v", "l", "a", "n", " ", "1", "0">>>>,
      <<"switchport mode access", <<"s", "w", "i", "t", "c", "h", "p", "o", "r", "t", " ", "m", "o", "d", "e", " ", "a", "c", "c", "e", "s", "s">>>>,
      <<"name x", <<"n", "a", "m", "e", " ", "x">>>>,
      <<"state x", <<"s", "t", "a", "t", "e", " ", "x">>>>,
      <<"hello world", <<"h", "e", "l", "l", "o", " ", "w", "o", "r", "l", "d">>>>,
      <<"show ?", <<"s", "h", "o", "w", " ", "?">>>>,
      <<"sh?", <<"s", "h", "?">>>>,
      <<"s?", <<"s", "?">>>>,
      <<"xyz?", <<"x", "y", "z", "?">>>>,
      <<"h?", <<"h", "?">>>>,
      <<"enable ?", <<"e", "n", "a", "b", "l", "e", " ", "?">>>>,
      <<"hostname ?", <<"h", "o", "s", "t", "n", "a", "m", "e", " ", "?">>>>,
      <<"interface ?", <<"i", "n", "t", "e", "r", "f", "a", "c", "e", " ", "?">>>>,
      <<"configure t?", <<"c", "o", "n", "f", "i", "g", "u", "r", "e", " ", "t", "?">>>>,
      <<"configure t ?", <<"c", "o", "n", "f", "i", "g", "u", "r", "e", " ", "t", " ", "?">>>>,
      <<"configure x?", <<"c", "o", "n", "f", "i", "g", "u", "r", "e", " ", "x", "?">>>>,
      <<"ntp a?", <<"n", "t", "p", " ", "a", "?">>>>,
      <<"show ip route ?", <<"s", "h", "o", "w", " ", "i", "p", " ", "r", "o", "u", "t", "e", " ", "?">>>>,
      <<"ip ?", <<"i", "p", " ", "?">>>>,
      <<"copy ?", <<"c", "o", "p", "y", " ", "?">>>>,
      <<"exit ?", <<"e", "x", "i", "t", " ", "?">>>> }

\* The table T of pairs as a function from the string to its characters.
TableOf(T) ==
    [s \in {p[1] : p \in T} |-> (CHOOSE p \in T : p[1] = s)[2]]

Spell == TableOf(Spelling)

\* The buffers rl.readline may return.
Buffers ==
    { "",
      "   ",
      " enable ",
      "show ? ",
      "?",
      "e",
      "xyz",
      "en",
      "enable",
      "enable password pw1",
      "enable secret pw2",
      "enable password",
      "enable foo",
      "conf t",
      "configure terminal",
      "configure",
      "configure x",
      "configure user",
      "configure terminal now",
      "exit",
      "exit cli",
      "exit  cli",
      "exit ssh",
      "exit now",
      "reload",
      "debug all",
      "debug x",
      "debug all x",
      "undebug all",
      "hostname R1",
      "hostname",
      "ifconfig",
      "ifconfig eth0 10.0.0.1 up",
      "ifconfig eth0 bad up",
      "ifconfig eth0",
      "write memory",
      "wr m",
      "write memory x",
      "write",
      "copy running-config startup-config",
      "copy run",
      "copy run file1",
      "copy foo startup-config",
      "copy foo",
      "help",
      "clock set 10:30:00 1 January 2025",
      "clock set 25:00:00 1 January 2025",
      "clock set 10:30:00 31 February 2025",
      "clock set 10:30:00 1 Jan 2025",
      "clock set",
      "clock set x",
      "ntp server 10.0.0.1",
      "ntp server bad",
      "ntp server",
      "ntp master",
      "ntp authenticate",
      "ntp a",
      "ntp authentication-key 1 md5 k1",
      "ntp authentication-key x md5 k1",
      "ntp authentication-key 1",
      "ntp trusted-key 1",
      "ntp trusted-key x",
      "ntp foo bar",
      "ping 10.0.0.0",
      "ping",
      "ping a b",
      "show clock",
      "show version",
      "show interfaces",
      "show ip",
      "show ip route",
      "show running-config",
      "show run",
      "show startup-config",
      "show ntp x y",
      "show processes x",
      "show crypto",
      "show crypto key",
      "show c",
      "show foo bar",
      "ip address 10.0.0.1 255.255.255.0",
      "ip address bad 255.255.255.0",
      "ip address 10.0.0.1",
      "ip address",
      "ip ospf",
      "ip ospf cost 10",
      "ip ospf cost x",
      "ip route 10.0.0.0 255.255.255.0 192.168.1.1",
      "ip route 10.0.0.0 255.255.255.0 eth0",
      "ip route 10.0.0.0 255.255.255.0 eth0 192.168.1.1",
      "ip route",
      "ip route bad 255.255.255.0 eth0",
      "ip route 10.0.0.0 255.255.255.0",
      "ip domain-name example.com",
      "ip domain-name",
      "ip access-list standard 10",
      "ip access-list extended 101",
      "ip access-list Extended 101",
      "ip access-list foo 10",
      "ip access-list standard",
      "ip foo bar",
      "shutdown",
      "no shutdown",
      "no ntp server 10.0.0.1",
      "no ntp server 192.168.1.1",
      "no ntp",
      "no crypto",
      "no crypto dynamic-map m1",
      "no crypto map m1",
      "no foo bar",
      "router ospf 1",
      "router ospf 0",
      "router ospf x",
      "router ospf",
      "network 10.0.0.0 0.0.0.255 area 0",
      "network 10.0.0.0 0.0.0.255 area x",
      "network 10.0.0.0",
      "neighbor 10.0.0.1",
      "neighbor 10.0.0.1 cost 10",
      "neighbor 10.0.0.1 cost x",
      "neighbor bad",
      "neighbor",
      "area 0 authentication",
      "area 0 stub x",
      "area 0",
      "passive-interface g0/0",
      "passive-interface",
      "distance 110",
      "distance x",
      "default-information originate",
      "default-information",
      "router-id 10.0.0.1",
      "router-id",
      "clear",
      "clear ip ospf process",
      "clear ip",
      "access-list 10 permit ip 10.0.0.0",
      "access-list 10 permit ip",
      "access-list 10 permit ip bad",
      "access-list 10",
      "deny 10.0.0.0",
      "deny 10.0.0.0 0.0.0.255",
      "deny bad",
      "deny",
      "deny ip 10.0.0.0 10.0.0.1",
      "deny ip 10.0.0.0 eq 80 10.0.0.1",
      "permit 10.0.0.0",
      "permit bad",
      "permit ip 10.0.0.0 10.0.0.1",
      "permit ip 10.0.0.0 eq 80 10.0.0.1",
      "crypto ipsec",
      "crypto ipsec profile p1",
      "crypto ipsec profile",
      "crypto ipsec transform-set ts1 x",
      "crypto key",
      "crypto key generate rsa",
      "crypto key generate",
      "crypto dynamic-map m1 1",
      "crypto dynamic-map m1 x",
      "crypto map m1 1",
      "crypto map m1",
      "crypto engine accelerator 1",
      "crypto foo bar",
      "set transform-set ts1",
      "set transform-set",
      "service password-encryption",
      "service password-encryption x",
      "tunnel mode ipsec ipv4",
      "tunnel mode",
      "tunnel source g0/0",
      "tunnel destination 10.0.0.1",
      "tunnel destination bad",
      "tunnel destination",
      "tunnel protection ipsec profile p1",
      "tunnel foo bar",
      "virtual-template 1",
      "virtual-template x",
      "virtual-template",
      "interface g0/0",
      "int g0/0",
      "int eth0",
      "int r0",
      "interface",
      "interface range f0/0 - 24",
      "interface range f0/0-24",
      "interface range f0/0",
      "interface range",
      "interface range - 24",
      "vlan 10",
      "switchport mode access",
      "name x",
      "state x",
      "hello",
      "hello world",
      "show ?",
      "sh?",
      "s?",
      "xyz?",
      "h?",
      "enable ?",
      "hostname ?",
      "interface ?",
      "configure t?",
      "configure t ?",
      "configure x?",
      "ntp a?",
      "show ip route ?",
      "ip ?",
      "copy ?",
      "exit ?" }
\* ---- end of tables ----

----------------------------------------------------------------------------
\* Option<T>

None == <<>>

Some(x) == <<x>>

is_some(o) == o # <<>>

is_none(o) == o = <<>>

unwrap(o) == o[1]

----------------------------------------------------------------------------
\* str and number primitives, on characters

StartsWithChars(cs, ps) ==
    Len(ps) <= Len(cs) /\ SubSeq(cs, 1, Len(ps)) = ps

StartsWithIn(T, s, p) == StartsWithChars(T[s], T[p])

\* str::starts_with
starts_with(s, p) == StartsWithIn(Spell, s, p)

\* The string with the given characters.
Str(cs) == (CHOOSE p \in Spelling : p[2] = cs)[1]

RECURSIVE SplitAcc(_, _, _)
SplitAcc(cs, ch, cur) ==
    IF cs = <<>> THEN <<cur>>
    ELSE IF Head(cs) = ch THEN <<cur>> \o SplitAcc(Tail(cs), ch, <<>>)
    ELSE SplitAcc(Tail(cs), ch, Append(cur, Head(cs)))

\* str::split(ch): the pieces between the occurrences of ch, empty ones kept
split(cs, ch) == SplitAcc(cs, ch, <<>>)

RECURSIVE trim_start(_)
trim_start(cs) ==
    IF cs # <<>> /\ Head(cs) = " " THEN trim_start(Tail(cs)) ELSE cs

RECURSIVE trim_end(_)
trim_end(cs) ==
    IF cs # <<>> /\ cs[Len(cs)] = " " THEN trim_end(SubSeq(cs, 1, Len(cs) - 1)) ELSE cs

\* str::trim
trim(cs) == trim_end(trim_start(cs))

RECURSIVE trim_end_matches(_, _)
\* str::trim_end_matches(ch)
trim_end_matches(cs, ch) ==
    IF cs # <<>> /\ cs[Len(cs)] = ch
    THEN trim_end_matches(SubSeq(cs, 1, Len(cs) - 1), ch) ELSE cs

\* str::split_whitespace: the pieces between the blanks, empty ones dropped
split_whitespace(cs) ==
    LET NonEmpty(p) == p # <<>>
    IN  SelectSeq(split(cs, " "), NonEmpty)

\* str::find(' '): the position of the first blank, 0 when there is none
find_space(cs) ==
    IF \E i \in 1..Len(cs) : cs[i] = " "
    THEN CHOOSE i \in 1..Len(cs) : cs[i] = " " /\ \A j \in 1..(i - 1) : cs[j] # " "
    ELSE 0

RECURSIVE JoinChars(_)
\* [&str]::join(" ")
JoinChars(toks) ==
    IF toks = <<>> THEN <<>>
    ELSE Spell[Head(toks)] \o (IF Len(toks) = 1 THEN <<>> ELSE <<" ">> \o JoinChars(Tail(toks)))

DigitVal ==
    ("0" :> 0) @@ ("1" :> 1) @@ ("2" :> 2) @@ ("3" :> 3) @@ ("4" :> 4) @@
    ("5" :> 5) @@ ("6" :> 6) @@ ("7" :> 7) @@ ("8" :> 8) @@ ("9" :> 9)

DigitChar == <<"0", "1", "2", "3", "4", "5", "6", "7", "8", "9">>

RECURSIVE DigitsValue(_, _)
DigitsValue(cs, acc) ==
    IF cs = <<>> THEN acc ELSE DigitsValue(Tail(cs), acc * 10 + DigitVal[Head(cs)])

AllDigits(cs) == cs # <<>> /\ \A i \in 1..Len(cs) : cs[i] \in DOMAIN DigitVal

\* Numerals are evaluated up to this many digits; a longer one is taken to
\* be out of range (every numeral of MaxDigits digits fits a u32, and the
\* numerals of the input lines are far shorter).
MaxDigits == 9

\* str::parse::<uN>(): an optional '+', then digits, the value at most max
parse_unsigned(cs, max) ==
    LET ds == IF cs # <<>> /\ Head(cs) = "+" THEN Tail(cs) ELSE cs
    IN  IF AllDigits(ds) /\ Len(ds) <= MaxDigits /\ DigitsValue(ds, 0) <= max
        THEN Some(DigitsValue(ds, 0))
        ELSE None

U8Max == 255

U16Max == 65535

\* str::parse::<u32>(), on characters
parse_chars_u32(cs) ==
    LET ds == IF cs # <<>> /\ Head(cs) = "+" THEN Tail(cs) ELSE cs
    IN  IF AllDigits(ds) /\ Len(ds) <= MaxDigits THEN Some(DigitsValue(ds, 0)) ELSE None

\* str::parse::<u32>()
parse_u32(s) == parse_chars_u32(Spell[s])

\* One octet of a dotted quad: one to three digits, no leading zero, <= 255.
ParseOctet(cs) ==
    IF AllDigits(cs) /\ Len(cs) <= 3 /\ (Len(cs) = 1 \/ cs[1] # "0")
       /\ DigitsValue(cs, 0) <= U8Max
    THEN Some(DigitsValue(cs, 0))
    ELSE None

\* Ipv4Addr::from_str: the address as its four octets, None when malformed
Ipv4Addr_from_str(s) ==
    LET ps == split(Spell[s], ".")
    IN  IF Len(ps) = 4 /\ \A i \in 1..4 : is_some(ParseOctet(ps[i]))
        THEN Some([i \in 1..4 |-> unwrap(ParseOctet(ps[i]))])
        ELSE None

RECURSIVE NatToChars(_)
NatToChars(n) ==
    IF n < 10 THEN <<DigitChar[n + 1]>>
    ELSE NatToChars(n \div 10) \o <<DigitChar[(n % 10) + 1]>>

\* Ipv4Addr::to_string
Ipv4Addr_to_string(ip) ==
    Str(NatToChars(ip[1]) \o <<".">> \o NatToChars(ip[2]) \o <<".">> \o
        NatToChars(ip[3]) \o <<".">> \o NatToChars(ip[4]))

\* str::to_lowercase on ASCII letters
LowerOf ==
    ("A" :> "a") @@ ("B" :> "b") @@ ("C" :> "c") @@ ("D" :> "d") @@ ("E" :> "e") @@
    ("F" :> "f") @@ ("G" :> "g") @@ ("H" :> "h") @@ ("I" :> "i") @@ ("J" :> "j") @@
    ("K" :> "k") @@ ("L" :> "l") @@ ("M" :> "m") @@ ("N" :> "n") @@ ("O" :> "o") @@
    ("P" :> "p") @@ ("Q" :> "q") @@ ("R" :> "r") @@ ("S" :> "s") @@ ("T" :> "t") @@
    ("U" :> "u") @@ ("V" :> "v") @@ ("W" :> "w") @@ ("X" :> "x") @@ ("Y" :> "y") @@
    ("Z" :> "z")

to_lowercase(s) ==
    LET cs == Spell[s]
    IN  Str([i \in 1..Len(cs) |-> IF cs[i] \in DOMAIN LowerOf THEN LowerOf[cs[i]] ELSE cs[i]])

----------------------------------------------------------------------------
\* execute.rs: modes, the registry's shape, the mode filter, the matcher

UserMode == [tag |-> "UserMode", acl |-> ""]

PrivilegedMode == [tag |-> "PrivilegedMode", acl |-> ""]

ConfigMode == [tag |-> "ConfigMode", acl |-> ""]

InterfaceMode == [tag |-> "InterfaceMode", acl |-> ""]

VlanMode == [tag |-> "VlanMode", acl |-> ""]

RouterConfigMode == [tag |-> "RouterConfigMode", acl |-> ""]

ConfigStdNaclMode(a) == [tag |-> "ConfigStdNaclMode", acl |-> a]

ConfigExtNaclMode(a) == [tag |-> "ConfigExtNaclMode", acl |-> a]

\* Named by the configure and exit callbacks but not a variant of the Mode
\* enum of execute.rs, and without an arm in the mode filter: as a mode it
\* shows no command.
CryptoUserMode == [tag |-> "CryptoUserMode", acl |-> ""]

ModeTags ==
    { "UserMode", "PrivilegedMode", "ConfigMode", "InterfaceMode", "VlanMode",
      "RouterConfigMode", "ConfigStdNaclMode", "ConfigExtNaclMode", "CryptoUserMode" }

\* The keys of the registry in insertion order.  The program walks them in
\* the HashMap's order; nothing modelled here depends on it except the
\* order of help listings.
RegistryKeys ==
    << "enable", "configure", "interface", "exit", "reload", "debug", "undebug",
       "hostname", "ifconfig", "write", "copy", "help", "clock", "ntp", "ping",
       "show", "ip", "shutdown", "no", "router", "network", "neighbor", "area",
       "passive-interface", "distance", "default-information", "router-id",
       "clear", "access-list", "deny", "permit", "crypto", "set", "service",
       "tunnel", "virtual-template" >>

SeqRange(q) == { q[i] : i \in 1..Len(q) }

\* suggestions1 of each registered command
suggestions1 ==
    [c \in SeqRange(RegistryKeys) |->
        CASE c = "configure" -> Some(<<"terminal", "user">>)
          [] c \in {"debug", "undebug"} -> Some(<<"all">>)
          [] c = "write" -> Some(<<"memory">>)
          [] c = "copy" -> Some(<<"running-config">>)
          [] c = "clock" -> Some(<<"set">>)
          [] c = "ntp" ->
                Some(<<"server", "master", "authenticate", "authentication-key", "trusted-key">>)
          [] c = "show" ->
                Some(<<"running-config", "startup-config", "access-lists", "ip", "version",
                       "ntp", "processes", "clock", "vlan", "interfaces", "uptime", "login",
                       "crypto key", "crypto certificate", "crypto dynamic-map", "crypto map",
                       "crypto engine">>)
          [] c = "ip" -> Some(<<"address", "ospf", "route", "domain-name", "access-list">>)
          [] c = "no" ->
                Some(<<"shutdown", "ntp", "crypto dynamic-map", "crypto engine accelerator",
                       "crypto ipsec security-association lifetime",
                       "crypto ipsec transform-set", "crypto map">>)
          [] c = "router" -> Some(<<"ospf">>)
          [] c = "default-information" -> Some(<<"originate">>)
          [] c = "crypto" ->
                Some(<<"ipsec", "key", "certificate", "dynamic-map", "engine accelerator",
                       "ipsec security-association lifetime", "ipsec transform-set", "map",
                       "map local-address">>)
          [] c = "set" -> Some(<<"transform-set">>)
          [] c = "service" -> Some(<<"password-encryption">>)
          [] c = "tunnel" -> Some(<<"mode", "source", "destination", "protection">>)
          [] OTHER -> None]

\* options of each registered command, each entry cut at its description
options ==
    [c \in SeqRange(RegistryKeys) |->
        CASE c = "interface" -> Some(<<"range", "<interface-name>">>)
          [] c = "hostname" -> Some(<<"<new-hostname>">>)
          [] c = "ifconfig" -> Some(<<"<interface", "<ip-address>">>)
          [] c = "copy" -> Some(<<"startup-config">>)
          [] c = "clock" -> Some(<<"<hh:mm:ss>", "<day>", "<month>", "<year>">>)
          [] c = "ping" -> Some(<<"<ip-address>">>)
          [] c = "router" -> Some(<<"<process-id>">>)
          [] c = "network" -> Some(<<"<ip-address>", "<wildcard-mask>", "<area-id>">>)
          [] c = "neighbor" -> Some(<<"<ip-address>", "<cost>">>)
          [] c = "area" -> Some(<<"<area-id>">>)
          [] c = "passive-interface" -> Some(<<"<interface>">>)
          [] c = "distance" -> Some(<<"<distance>">>)
          [] c = "router-id" -> Some(<<"<router-id>">>)
          [] c = "virtual-template" -> Some(<<"<template-number>">>)
          [] OTHER -> None]

\* The literals of the arm of get_mode_commands for each mode.
ModeAllowList(tag) ==
    CASE tag = "UserMode" -> {"enable", "ping", "help", "show", "clear", "reload", "exit"}
      [] tag = "PrivilegedMode" ->
            {"configure", "ping", "exit", "write", "help", "show", "copy", "clock", "clear",
             "reload", "debug", "undebug", "ifconfig"}
      [] tag = "ConfigMode" ->
            {"hostname", "interface", "ping", "exit", "clear", "tunnel", "access-list",
             "router", "virtual-template", "help", "write", "vlan", "ip", "service", "set",
             "enable", "ifconfig", "ntp", "no", "reload", "crypto"}
      [] tag = "InterfaceMode" ->
            {"shutdown", "no", "exit", "clear", "help", "switchport", "write", "reload", "ip"}
      [] tag = "VlanMode" -> {"name", "state", "clear", "exit", "help", "reload", "vlan"}
      [] tag = "RouterConfigMode" ->
            {"network", "neighbor", "exit", "clear", "area", "passive-interface", "distance",
             "help", "reload", "default-information", "router-id"}
      [] tag \in {"ConfigStdNaclMode", "ConfigExtNaclMode"} ->
            {"deny", "permit", "help", "exit", "clear", "reload", "ip"}
      [] OTHER -> {}

\* get_mode_commands: the registry keys the arm of the mode lets through
get_mode_commands(keys, mode) ==
    LET Allowed(c) == c \in ModeAllowList(mode.tag)
    IN  SelectSeq(keys, Allowed)

\* A matcher that settles for the first match.
find_unique_command_first(partial, available_commands) ==
    LET Match(c) == starts_with(c, partial)
        matches == SelectSeq(available_commands, Match)
    IN  IF Len(matches) >= 1 THEN Some(matches[1]) ELSE None

\* find_unique_command: the one available command starting with partial
find_unique_command(partial, available_commands) ==
    LET Match(c) == starts_with(c, partial)
        matches == SelectSeq(available_commands, Match)
    IN  IF Len(matches) = 1 THEN Some(matches[1]) ELSE None

\* find_unique_subcommand: the one suggestion starting with partial
find_unique_subcommand(partial, suggestions) ==
    LET Match(c) == starts_with(c, partial)
        matches == SelectSeq(suggestions, Match)
    IN  IF Len(matches) = 1 THEN Some(matches[1]) ELSE None

----------------------------------------------------------------------------
\* The state the callbacks work on: the context and clock main.rs owns and
\* the global stores of network_config.rs.  A callback is an operator from
\* its arguments, this state and what it reads from the environment to its
\* outcome: how it ended (res), the message of a returned failure (msg), the
\* state it leaves (s) and how many lines it read from the terminal (reads).

EmptyMap == <<>>

Insert(m, k, v) == (k :> v) @@ m

Remove(m, k) == [x \in (DOMAIN m) \ {k} |-> m[x]]

Ok(S) == [res |-> "ok", msg |-> <<>>, s |-> S, reads |-> 0, io |-> FALSE]

Err(m, S) == [res |-> "err", msg |-> <<m>>, s |-> S, reads |-> 0, io |-> FALSE]

\* a failure whose message is formatted from pieces
ErrF(m, S) == [res |-> "err", msg |-> m, s |-> S, reads |-> 0, io |-> FALSE]

\* the callback panicked: unwrap/expect on a failure, or an index out of range
Panic(S) == [res |-> "panic", msg |-> <<>>, s |-> S, reads |-> 0, io |-> FALSE]

\* the callback ended the process: std::process::exit
ProcessExit(S) == [res |-> "exit", msg |-> <<>>, s |-> S, reads |-> 0, io |-> FALSE]

\* the outcome r of a callback that read n lines from the terminal
Reading(n, r) == [r EXCEPT !.reads = n]

\* the outcome r of a callback that went to the file system
FileIo(r) == [r EXCEPT !.io = TRUE]

SetMode(S, mode, suffix) ==
    [S EXCEPT !.context.current_mode = mode,
              !.context.prompt = <<S.context.config.hostname, suffix>>]

\* An enable that grants nothing.
exec_enable_denied(args, S, env) == Ok(S)

\* An enable that asks for one line and grants whatever was typed.
exec_enable_unchecked(args, S, env) ==
    IF args = <<>> /\ S.context.current_mode = UserMode
    THEN Reading(1, Ok(SetMode(S, PrivilegedMode, "#")))
    ELSE Err("The 'enable' command is only available in User EXEC mode.", S)

exec_enable(args, S, env) ==
    IF args = <<>> THEN
        IF S.context.current_mode = UserMode THEN
            LET stored_password == S.PASSWORD_STORAGE.enable_password
                stored_secret == S.PASSWORD_STORAGE.enable_secret
                granted == SetMode(S, PrivilegedMode, "#")
            IN  IF is_none(stored_password) /\ is_none(stored_secret) THEN Ok(granted)
                ELSE IF is_none(stored_secret) THEN
                    IF env.stdin[1] = unwrap(stored_password)
                    THEN Reading(1, Ok(granted))
                    ELSE Reading(1, Err("Incorrect password or secret.", S))
                ELSE IF is_none(stored_password) THEN
                    IF env.stdin[1] = unwrap(stored_secret)
                    THEN Reading(1, Ok(granted))
                    ELSE Reading(1, Err("Incorrect password or secret.", S))
                ELSE
                    IF env.stdin[2] = unwrap(stored_secret) /\ env.stdin[1] = unwrap(stored_password)
                    THEN Reading(2, Ok(granted))
                    ELSE Reading(2, Err("Incorrect password or secret.", S))
        ELSE Err("The 'enable' command is only available in User EXEC mode.", S)
    ELSE IF args[1] = "password" THEN
        IF S.context.current_mode = ConfigMode THEN
            IF Len(args) # 2 THEN Err("You must provide the enable password.", S)
            ELSE Ok([S EXCEPT !.PASSWORD_STORAGE.enable_password = Some(args[2]),
                              !.context.config.enable_password = Some(args[2])])
        ELSE Err("The 'enable password' command is only available in Config mode.", S)
    ELSE IF args[1] = "secret" THEN
        IF S.context.current_mode = ConfigMode THEN
            IF Len(args) # 2 THEN Err("You must provide the enable secret password.", S)
            ELSE Ok([S EXCEPT !.PASSWORD_STORAGE.enable_secret = Some(args[2]),
                              !.context.config.enable_secret = Some(args[2])])
        ELSE Err("The 'enable secret' command is only available in Config mode.", S)
    ELSE ErrF(<<"Unknown enable subcommand: ", args[1]>>, S)

\* A configure that enters Global Configuration mode before it looks at
\* its arguments.
exec_configure_eager(args, S, env) ==
    IF S.context.current_mode = PrivilegedMode THEN
        IF Len(args) = 1 /\ args[1] = "terminal" THEN Ok(SetMode(S, ConfigMode, "(config)#"))
        ELSE Err("Invalid arguments provided to 'configure'. This command does not accept additional arguments.",
                 SetMode(S, ConfigMode, "(config)#"))
    ELSE Err("The 'configure terminal' command is only available in Privileged EXEC mode.", S)

exec_configure(args, S, env) ==
    IF S.context.current_mode = PrivilegedMode THEN
        IF Len(args) = 1 /\ args[1] = "terminal" THEN Ok(SetMode(S, ConfigMode, "(config)#"))
        ELSE IF Len(args) = 1 /\ args[1] = "user" THEN Ok(SetMode(S, CryptoUserMode, "(user)#"))
        ELSE Err("Invalid arguments provided to 'configure'. This command does not accept additional arguments.", S)
    ELSE Err("The 'configure terminal' command is only available in Privileged EXEC mode.", S)

\* An interface that enters Interface mode and selects nothing.
exec_interface_unselected(args, S, env) ==
    IF S.context.current_mode \in {ConfigMode, InterfaceMode} /\ args # <<>>
    THEN Ok(SetMode(S, InterfaceMode, "(config-if)#"))
    ELSE Err("Please specify an interface.", S)

exec_interface(args, S, env) ==
    IF S.context.current_mode \in {ConfigMode, InterfaceMode} THEN
        IF args = <<>> THEN
            Err("Please specify an interface or range, e.g., 'interface g0/0' or 'interface range f0/0 - 24'.", S)
        ELSE
            LET input == JoinChars(args)
                pos == find_space(input)
                after_range == trim(SubSeq(input, pos, Len(input)))
                raw_parts == split(after_range, "-")
                range_parts == [i \in 1..Len(raw_parts) |-> trim(raw_parts[i])]
            IN  IF StartsWithChars(input, <<"r">>) THEN
                    IF pos = 0 THEN Err("Invalid range format. Use 'interface range f0/0 - 24'.", S)
                    ELSE IF Len(range_parts) # 2 THEN
                        Err("Invalid range format. Use 'interface range f0/0 - 24'.", S)
                    ELSE IF range_parts[1] = <<>> \/ range_parts[2] = <<>> THEN
                        Err("Invalid range format. Start and end interfaces must be specified.", S)
                    ELSE
                        Ok([SetMode(S, InterfaceMode, "(config-if-range)#") EXCEPT
                              !.context.selected_interface =
                                  Some(Str(range_parts[1] \o <<" ", "-", " ">> \o range_parts[2]))])
                ELSE
                    Ok([SetMode(S, InterfaceMode, "(config-if)#") EXCEPT
                          !.context.selected_interface = Some(Str(input))])
    ELSE Err("The 'interface' command is only available in Global Configuration mode and interface configuration mode.", S)

exec_exit(args, S, env) ==
    IF args = <<>> THEN
        LET tag == S.context.current_mode.tag
        IN  IF tag \in {"InterfaceMode", "VlanMode", "RouterConfigMode",
                        "ConfigStdNaclMode", "ConfigExtNaclMode"}
            THEN Ok(SetMode(S, ConfigMode, "(config)#"))
            ELSE IF tag \in {"ConfigMode", "CryptoUserMode"} THEN Ok(SetMode(S, PrivilegedMode, "#"))
            ELSE IF tag = "PrivilegedMode" THEN Ok(SetMode(S, UserMode, ">"))
            ELSE Err("No mode to exit.", S)
    ELSE IF Len(args) = 1 /\ args[1] = "ssh" THEN ProcessExit(S)
    ELSE Err("Command is either 'exit' , 'exit cli' or 'exit ssh'", S)

\* str::eq_ignore_ascii_case
eq_ignore_ascii_case(a, b) == to_lowercase(a) = to_lowercase(b)

exec_reload(args, S, env) ==
    LET save_input == env.stdin[1]
        reload_confirm == env.stdin[2]
    IN  IF ~(eq_ignore_ascii_case(save_input, "yes") \/ eq_ignore_ascii_case(save_input, "no"))
        THEN Reading(1, Err("Invalid input. Please enter 'yes' or 'no'.", S))
        ELSE IF eq_ignore_ascii_case(reload_confirm, "yes") \/ eq_ignore_ascii_case(reload_confirm, "y")
        THEN Reading(2, Ok(SetMode(S, UserMode, ">")))
        ELSE IF eq_ignore_ascii_case(reload_confirm, "no") THEN Reading(2, Ok(S))
        ELSE Reading(2, Err("Invalid input. Please enter 'yes', 'y', or 'no'.", S))

exec_debug(args, S, env) ==
    IF S.context.current_mode = PrivilegedMode THEN
        IF Len(args) = 1 /\ args[1] = "all" THEN
            IF eq_ignore_ascii_case(env.stdin[1], "yes") THEN Reading(1, Ok(S))
            ELSE Reading(1, Err("Invalid input. Please enter 'yes' or 'no'.", S))
        ELSE Err("Invalid arguments provided to 'debug all'. This command does not accept additional arguments.", S)
    ELSE Err("The 'debug all' command is only available in Privileged EXEC mode.", S)

exec_undebug(args, S, env) ==
    IF S.context.current_mode = PrivilegedMode THEN
        IF Len(args) = 1 /\ args[1] = "all" THEN Ok(S)
        ELSE Err("Invalid arguments provided to 'undebug all'. This command does not accept additional arguments.", S)
    ELSE Err("The 'undebug all' command is only available in Privileged EXEC mode.", S)

\* A hostname callback that leaves the prompt with the old hostname.
exec_hostname_stale(args, S, env) ==
    IF S.context.current_mode = ConfigMode /\ args # <<>>
    THEN Ok([S EXCEPT !.context.config.hostname = args[1]])
    ELSE Err("Please specify a new hostname. Usage: hostname <new_hostname>", S)

exec_hostname(args, S, env) ==
    IF S.context.current_mode = ConfigMode THEN
        IF args # <<>> THEN
            Ok([S EXCEPT !.context.config.hostname = args[1],
                         !.context.prompt = <<args[1], "(config)#">>])
        ELSE Err("Please specify a new hostname. Usage: hostname <new_hostname>", S)
    ELSE Err("The 'hostname' command is only available in Global Configuration Mode.", S)

Pow2(h) == IF h = 0 THEN 1 ELSE 2 ^ h

\* calculate_broadcast: every host bit of the address set, octet by octet
calculate_broadcast(ip, prefix_len) ==
    [i \in 1..4 |->
        LET over == 8 * i - prefix_len
            h == IF over < 0 THEN 0 ELSE IF over > 8 THEN 8 ELSE over
        IN  (ip[i] \div Pow2(h)) * Pow2(h) + Pow2(h) - 1]

\* encrypt_password: the hexadecimal SHA-256 digest, kept as a term
encrypt_password(password) == <<"sha256:", password>>

exec_ifconfig(args, S, env) ==
    IF args = <<>> THEN Ok(S)
    ELSE IF Len(args) = 3 /\ args[3] = "up" THEN
        LET new_ip == Ipv4Addr_from_str(args[2])
        IN  IF is_none(new_ip) THEN Panic(S)
            ELSE Ok([S EXCEPT !.IFCONFIG_STATE =
                        Insert(@, args[1], <<unwrap(new_ip), calculate_broadcast(unwrap(new_ip), 24)>>)])
    ELSE Ok(S)

\* get_running_config: the text of the running configuration, as the values
\* substituted into its template
get_running_config(S) ==
    LET interface == IF is_some(S.context.selected_interface)
                     THEN unwrap(S.context.selected_interface) ELSE "FastEthernet0/1"
    IN  [ service |-> IF S.context.config.password_encryption
                      THEN "service password-encryption" ELSE "no service password-encryption",
          hostname |-> S.context.config.hostname,
          encrypted_password |-> IF is_some(S.context.config.encrypted_password)
                                 THEN unwrap(S.context.config.encrypted_password) ELSE <<>>,
          encrypted_secret |-> IF is_some(S.context.config.encrypted_secret)
                               THEN unwrap(S.context.config.encrypted_secret) ELSE <<>>,
          interface |-> interface,
          ip_address |-> IF interface \in DOMAIN S.IP_ADDRESS_STATE
                         THEN Ipv4Addr_to_string(S.IP_ADDRESS_STATE[interface][1])
                         ELSE "no ip address",
          shutdown_status |-> IF interface \in DOMAIN S.STATUS_MAP /\ S.STATUS_MAP[interface]
                              THEN "no shutdown" ELSE "shutdown",
          route_entries |-> S.ROUTE_TABLE,
          ospf_process_id |-> S.OSPF_CONFIG.process_id,
          ospf_interface |-> S.OSPF_CONFIG.passive_interfaces,
          ospf_network_configs |-> S.OSPF_CONFIG.networks,
          acl_configs |-> S.ACL_STORE ]

\* chrono::Local::now().to_string()
Now == "now"

SaveToStartup(S) ==
    [S EXCEPT !.context.config.startup_config = Some(get_running_config(S)),
              !.context.config.last_written = Some(Now)]

exec_write(args, S, env) ==
    IF S.context.current_mode \in {PrivilegedMode, ConfigMode, InterfaceMode} THEN
        IF Len(args) = 1 /\ args[1] = "memory" THEN Ok(SaveToStartup(S))
        ELSE Err("Invalid arguments provided to 'write memory'. This command does not accept additional arguments.", S)
    ELSE Err("The 'write memory' command is only available in Privileged EXEC mode.", S)

exec_copy(args, S, env) ==
    IF S.context.current_mode \notin {PrivilegedMode, ConfigMode, InterfaceMode} THEN
        Err("The 'copy' command is only available in Privileged EXEC mode, Config mode and interface mode", S)
    ELSE IF Len(args) < 1 THEN Panic(S)
    ELSE IF ~StartsWithChars(Spell[args[1]], <<"r", "u", "n">>) THEN
        Err("Invalid source. Use 'running-config'", S)
    ELSE IF Len(args) < 2 THEN Panic(S)
    ELSE IF args[2] = "startup-config" THEN Ok(SaveToStartup(S))
    ELSE
        CASE env.fs = "ok" ->
                FileIo(Ok([S EXCEPT !.files = Insert(@, args[2], Some(get_running_config(S)))]))
          [] env.fs = "write_err" ->
                FileIo(Err("io error", [S EXCEPT !.files = Insert(@, args[2], None)]))
          [] OTHER -> FileIo(Err("io error", S))

exec_help(args, S, env) == Ok(S)

\* Clock::update_custom_datetime
update_custom_datetime(clock) ==
    IF clock.time # "" /\ clock.date # <<>>
    THEN [clock EXCEPT !.custom_datetime = Some(<<clock.date, clock.time>>)]
    ELSE clock

\* Clock::set_time: ok tells whether it returned Ok, clock is the clock after
set_time(clock, time) ==
    LET parts == split(Spell[time], ":")
        nums == [i \in 1..Len(parts) |-> parse_chars_u32(parts[i])]
    IN  IF Len(parts) # 3 THEN [ok |-> FALSE, clock |-> clock]
        ELSE IF \E i \in 1..3 : is_none(nums[i]) THEN [ok |-> FALSE, clock |-> clock]
        ELSE IF unwrap(nums[1]) >= 24 \/ unwrap(nums[2]) >= 60 \/ unwrap(nums[3]) >= 60
        THEN [ok |-> FALSE, clock |-> clock]
        ELSE [ok |-> TRUE, clock |-> update_custom_datetime([clock EXCEPT !.time = time])]

\* Clock::set_date
set_date(clock, day, month, year) ==
    LET max_days == IF month = "February" THEN (IF year % 4 = 0 THEN 29 ELSE 28)
                    ELSE IF month \in {"April", "June", "September", "November"} THEN 30
                    ELSE 31
    IN  IF day = 0 \/ day > max_days THEN [ok |-> FALSE, clock |-> clock]
        ELSE [ok |-> TRUE,
              clock |-> update_custom_datetime([clock EXCEPT !.date = <<day, month, year>>])]

\* handle_clock_set: the time first, then the date; the first failure returns
handle_clock_set(time, day, month, year, clock) ==
    LET t == IF time # "" THEN set_time(clock, time) ELSE [ok |-> TRUE, clock |-> clock]
    IN  IF ~t.ok THEN t
        ELSE IF day # 0 THEN set_date(t.clock, day, month, year)
        ELSE t

valid_months ==
    { "January", "February", "March", "April", "May", "June", "July", "August",
      "September", "October", "November", "December" }

\* parse_clock_set_input on the blank-separated parts of its input: the
\* message of the failure, or <<>> when time, day, month and year are valid
parse_clock_set_input(parts) ==
    IF Len(parts) < 5 THEN
        <<"Incomplete command. Usage: clock set <hh:mm:ss> <day> <month> <year>">>
    ELSE IF Len(split(Spell[parts[2]], ":")) # 3 THEN
        <<"Invalid time format. Expected hh:mm:ss.">>
    ELSE IF is_none(parse_unsigned(Spell[parts[3]], U8Max))
            \/ unwrap(parse_unsigned(Spell[parts[3]], U8Max)) \notin 1..31 THEN
        <<"Invalid day. Expected a number between 1 and 31.">>
    ELSE IF parts[4] \notin valid_months THEN
        <<"Invalid month. Expected a valid month name.">>
    ELSE IF is_none(parse_unsigned(Spell[parts[5]], U16Max))
            \/ unwrap(parse_unsigned(Spell[parts[5]], U16Max)) \notin 1993..2035 THEN
        <<"Invalid year. Expected a number between 1993 and 2035.">>
    ELSE <<>>

exec_clock(args, S, env) ==
    IF S.context.current_mode = PrivilegedMode THEN
        IF Len(args) > 1 /\ args[1] = "set" THEN
            IF is_some(S.clock) THEN
                LET failure == parse_clock_set_input(args)
                IN  IF failure = <<>> THEN
                        Ok([S EXCEPT !.clock = Some(handle_clock_set(
                                args[2], unwrap(parse_unsigned(Spell[args[3]], U8Max)), args[4],
                                unwrap(parse_unsigned(Spell[args[5]], U16Max)), unwrap(S.clock)).clock)])
                    ELSE ErrF(failure, S)
            ELSE Err("Clock functionality is unavailable.", S)
        ELSE Err("Correct Usage of 'clock set' command is 'clock set <hh:mm:ss> <day> <month> <year>'.", S)
    ELSE Err("The 'clock set' command is only available in Privileged EXEC mode.", S)

NtpAssociation(address) ==
    [ address |-> address, ref_clock |-> ".INIT.", st |-> 16, when |-> "-", poll |-> 64,
      reach |-> 0, delay |-> "0.0", offset |-> "0.0", disp |-> "0.01" ]

exec_ntp(args, S, env) ==
    IF S.context.current_mode # ConfigMode THEN
        Err("NTP commands are only available in configuration mode.", S)
    ELSE IF args = <<>> THEN
        Err("Subcommand required. Available subcommands: server, master, authenticate, authentication-key, trusted-key", S)
    ELSE IF args[1] = "server" THEN
        IF Len(args) = 2 THEN
            IF is_some(Ipv4Addr_from_str(args[2])) THEN
                Ok([S EXCEPT !.context.ntp_servers = @ \cup {args[2]},
                             !.context.ntp_associations = Append(@, NtpAssociation(args[2]))])
            ELSE Err("Invalid IP address format.", S)
        ELSE Err("Invalid arguments. Usage: ntp server {ip-address}", S)
    ELSE IF args[1] = "master" THEN Ok([S EXCEPT !.context.ntp_master = TRUE])
    ELSE IF args[1] = "authenticate" THEN
        IF Len(args) = 1 THEN Ok([S EXCEPT !.context.ntp_authentication_enabled = ~@])
        ELSE Err("Invalid arguments. Use 'ntp authenticate'.", S)
    ELSE IF args[1] = "authentication-key" THEN
        IF Len(args) = 4 /\ args[3] = "md5" THEN
            IF is_some(parse_u32(args[2])) THEN
                Ok([S EXCEPT !.context.ntp_authentication_keys =
                        Insert(@, unwrap(parse_u32(args[2])), args[4])])
            ELSE Err("Invalid key number. Must be a positive integer.", S)
        ELSE Err("Invalid arguments. Use 'ntp authentication-key <key-number> md5 <key-value>'.", S)
    ELSE IF args[1] = "trusted-key" THEN
        IF Len(args) = 2 THEN
            IF is_some(parse_u32(args[2])) THEN
                Ok([S EXCEPT !.context.ntp_trusted_keys = @ \cup {unwrap(parse_u32(args[2]))}])
            ELSE Err("Invalid key number. Must be a positive integer.", S)
        ELSE Err("Invalid arguments. Use 'ntp trusted-key <key-number>'.", S)
    ELSE Err("Invalid NTP subcommand. Available subcommands: server, master, authenticate, authentication-key, trusted-key", S)

exec_ping(args, S, env) ==
    IF Len(args) = 1 THEN
        IF args[1] \in DOMAIN S.ROUTE_TABLE THEN Ok(S)
        ELSE ErrF(<<"IP address ", args[1], " is not reachable.">>, S)
    ELSE Err("Invalid syntax. Usage: ping <ip>", S)

\* args.get(i), zero-based as in the source
get(args, i) == IF i + 1 <= Len(args) THEN Some(args[i + 1]) ELSE None

\* The second match of the show callback, entered in PrivilegedMode only.
ShowPrivileged(args, S) ==
    LET a0 == get(args, 0)
        a1 == get(args, 1)
    IN  IF a0 = Some("ntp") THEN
            IF a1 = Some("associations") \/ a1 = None THEN Ok(S)
            ELSE Err("Invalid NTP subcommand. Use 'associations' or no subcommand", S)
        ELSE IF a0 = Some("processes") THEN
            IF \/ Len(args) = 1
               \/ Len(args) = 2 /\ args[2] = "cpu"
               \/ Len(args) = 3 /\ args[2] = "cpu" /\ args[3] = "history"
               \/ Len(args) = 2 /\ args[2] = "memory"
            THEN Ok(S)
            ELSE Err("Invalid subcommand for 'show processes'. Valid subcommands are 'cpu', 'cpu history', and 'memory'.", S)
        ELSE IF a0 = Some("crypto") THEN
            IF Len(args) < 2 THEN Err("Specify 'key' or 'certificate' after 'crypto'.", S)
            ELSE IF args[2] \in {"key", "certificate", "dynamic-map", "map", "engine"} THEN Ok(S)
            ELSE Err("Invalid crypto show command. Use 'show crypto key' or 'show crypto certificate'.", S)
        ELSE Ok(S)

\* The show callback prints and changes nothing.  The value of its first
\* match is dropped, so only the arms of that match that return early decide
\* the outcome; otherwise the second match does, and outside PrivilegedMode
\* the callback fails.
exec_show(args, S, env) ==
    LET a0 == get(args, 0)
        first == S.context.current_mode \in {UserMode, PrivilegedMode}
    IN  IF first /\ a0 = Some("version") /\ is_none(S.clock)
        THEN Err("Clock functionality is unavailable.", S)
        ELSE IF first /\ a0 = Some("interfaces") /\ is_none(S.context.selected_interface)
        THEN Err("No interface selected. Use the 'interface' command first.", S)
        ELSE IF first /\ a0 = Some("interfaces") /\ DOMAIN S.IP_ADDRESS_STATE = {}
        THEN Ok(S)
        ELSE IF S.context.current_mode = PrivilegedMode THEN ShowPrivileged(args, S)
        ELSE Err("Show commands are only available in User EXEC mode and Privileged EXEC mode.", S)

\* ("address", InterfaceMode)
IpAddress(args, S) ==
    IF Len(args) # 3 /\ ~(Len(args) = 2 /\ args[2] = "?") THEN
        Err("Usage: ip address <ip_address> <netmask>", S)
    ELSE IF is_none(Ipv4Addr_from_str(args[2])) THEN Err("Invalid IP address format.", S)
    ELSE IF Len(args) < 3 THEN Panic(S)
    ELSE IF is_none(Ipv4Addr_from_str(args[3])) THEN Err("Invalid netmask format.", S)
    ELSE IF is_some(S.context.selected_interface) THEN
        Ok([S EXCEPT !.IP_ADDRESS_STATE =
                Insert(@, unwrap(S.context.selected_interface),
                       <<unwrap(Ipv4Addr_from_str(args[2])), unwrap(Ipv4Addr_from_str(args[3]))>>)])
    ELSE Err("No interface selected. Use the 'interface' command first.", S)

\* ("ospf", InterfaceMode): validates and prints, stores nothing
IpOspf(args, S) ==
    IF Len(args) = 1 THEN Err("The 'ip ospf' command requires a subcommand.", S)
    ELSE
        LET subcommand == args[2]
        IN  IF subcommand \in {"cost", "retransmit-interval", "transmit-delay",
                               "hello-interval", "dead-interval"} THEN
                IF Len(args) = 3 THEN
                    IF is_some(parse_u32(args[3])) THEN Ok(S)
                    ELSE ErrF(<<"Invalid value. It must be a positive integer: ", subcommand>>, S)
                ELSE ErrF(<<"Usage: ip ospf ", subcommand>>, S)
            ELSE IF subcommand = "priority" THEN
                IF Len(args) = 3 THEN
                    IF is_some(parse_unsigned(Spell[args[3]], U8Max)) THEN Ok(S)
                    ELSE Err("Invalid priority value. It must be a number between 0 and 255.", S)
                ELSE Err("Usage: ip ospf priority <priority>", S)
            ELSE IF subcommand = "authentication-key" THEN
                IF Len(args) = 3 THEN Ok(S) ELSE Err("Usage: ip ospf authentication-key <key>", S)
            ELSE IF subcommand = "message-digest-key" THEN
                IF Len(args) = 5 /\ args[4] = "md5" THEN
                    IF is_some(parse_u32(args[3])) THEN Ok(S)
                    ELSE Err("Invalid key-id. It must be a positive integer.", S)
                ELSE Err("Usage: ip ospf message-digest-key <key-id> md5 <key>", S)
            ELSE IF subcommand = "authentication" THEN
                IF Len(args) = 3 THEN
                    IF args[3] \in {"message-digest", "null"} THEN Ok(S)
                    ELSE Err("Invalid authentication type. Valid options: message-digest, null.", S)
                ELSE Err("Usage: ip ospf authentication [message-digest | null]", S)
            ELSE ErrF(<<"Unknown subcommand '", subcommand, "'. Use 'ip ospf' to see available subcommands.">>, S)

\* ("route", ConfigMode)
IpRoute(args, S) ==
    IF Len(args) = 1 THEN Ok(S)
    ELSE IF Len(args) = 4 THEN
        LET destination_ip == Ipv4Addr_from_str(args[2])
            netmask == Ipv4Addr_from_str(args[3])
            next_hop == Ipv4Addr_from_str(args[4])
        IN  IF is_none(destination_ip) \/ is_none(netmask) THEN Panic(S)
            ELSE IF is_some(next_hop) THEN
                Ok([S EXCEPT !.ROUTE_TABLE =
                        Insert(@, Ipv4Addr_to_string(unwrap(destination_ip)),
                               <<unwrap(netmask), Ipv4Addr_to_string(unwrap(next_hop))>>)])
            ELSE
                Ok([S EXCEPT !.ROUTE_TABLE =
                        Insert(@, Ipv4Addr_to_string(unwrap(destination_ip)),
                               <<unwrap(netmask), args[4]>>)])
    ELSE IF Len(args) = 5 THEN
        LET destination_ip == Ipv4Addr_from_str(args[2])
            netmask == Ipv4Addr_from_str(args[3])
            exit_interface == args[3]
            next_hop == Ipv4Addr_from_str(args[5])
        IN  IF is_none(destination_ip) \/ is_none(netmask) \/ is_none(next_hop) THEN Panic(S)
            ELSE
                Ok([S EXCEPT !.ROUTE_TABLE =
                        Insert(@, Ipv4Addr_to_string(unwrap(destination_ip)),
                               <<unwrap(netmask),
                                 Str(Spell[exit_interface] \o <<" ">> \o
                                     Spell[Ipv4Addr_to_string(unwrap(next_hop))])>>)])
    ELSE Err("Usage: ip route <ip-address> <netmask> <next-hop | exit-interface> <next-hop>", S)

AccessControlList(name) == [number_or_name |-> name, entries |-> <<>>]
\* An ip access-list that enters the mode of a list it never stores.
IpAccessList_unstored(args, S) ==
    IF Len(args) >= 3 THEN
        IF to_lowercase(args[2]) = "standard" THEN
            Ok(SetMode(S, ConfigStdNaclMode(args[3]), "(config-std-nacl)#"))
        ELSE IF to_lowercase(args[2]) = "extended" THEN
            Ok(SetMode(S, ConfigExtNaclMode(args[3]), "(config-ext-nacl)#"))
        ELSE Err("Invalid syntax. Use 'ip access-list standard <acl_name>' or 'ip access-list extended <name_or_number>'.", S)
    ELSE Err("Usage: ip access-list standard|extended <acl_name|number>", S)

\* ("access-list", ConfigMode | ConfigStdNaclMode | ConfigExtNaclMode): the
\* list is entered into the store before its type is looked at
IpAccessList(args, S) ==
    IF Len(args) >= 3 THEN
        LET acl_type == to_lowercase(args[2])
            name == args[3]
            stored == IF name \in DOMAIN S.ACL_STORE THEN S
                      ELSE [S EXCEPT !.ACL_STORE = Insert(@, name, AccessControlList(name))]
        IN  IF acl_type = "standard" THEN
                Ok(SetMode(stored, ConfigStdNaclMode(name), "(config-std-nacl)#"))
            ELSE IF acl_type = "extended" THEN
                Ok(SetMode(stored, ConfigExtNaclMode(name), "(config-ext-nacl)#"))
            ELSE Err("Invalid syntax. Use 'ip access-list standard <acl_name>' or 'ip access-list extended <name_or_number>'.", stored)
    ELSE Err("Usage: ip access-list standard|extended <acl_name|number>", S)

exec_ip(args, S, env) ==
    IF args = <<>> THEN Err("Incomplete command. Use 'ip ?' for help.", S)
    ELSE
        LET tag == S.context.current_mode.tag
        IN  IF args[1] = "address" /\ tag = "InterfaceMode" THEN IpAddress(args, S)
            ELSE IF args[1] = "ospf" /\ tag = "InterfaceMode" THEN IpOspf(args, S)
            ELSE IF args[1] = "route" /\ tag = "ConfigMode" THEN IpRoute(args, S)
            ELSE IF args[1] = "domain-name" /\ tag = "ConfigMode" THEN
                IF Len(args) <= 1 THEN Err("Usage: ip domain-name <name>", S)
                ELSE Ok([S EXCEPT !.context.config.domain_name = Some(args[2])])
            ELSE IF args[1] = "access-list"
                    /\ tag \in {"ConfigMode", "ConfigStdNaclMode", "ConfigExtNaclMode"}
            THEN IpAccessList(args, S)
            ELSE Err("Command not available in current mode or invalid command", S)

\* shutdown that takes a context without a selected interface for done.
exec_shutdown_unchecked(args, S, env) ==
    IF S.context.current_mode = InterfaceMode THEN Ok(S)
    ELSE Err("The 'shutdown' command is only available in Interface Configuration mode.", S)
\* A shutdown that does what its message says: the address becomes 0.0.0.0.
exec_shutdown_zeroed(args, S, env) ==
    IF S.context.current_mode = InterfaceMode THEN
        IF is_some(S.context.selected_interface) THEN
            LET interface == unwrap(S.context.selected_interface)
            IN  IF interface \in DOMAIN S.IP_ADDRESS_STATE
                THEN Ok([S EXCEPT !.STATUS_MAP = Insert(@, interface, FALSE),
                                  !.IP_ADDRESS_STATE[interface][1] = <<0, 0, 0, 0>>])
                ELSE Ok(S)
        ELSE Err("No interface selected. Use the 'interface' command first.", S)
    ELSE Err("The 'shutdown' command is only available in Interface Configuration mode.", S)

exec_shutdown(args, S, env) ==
    IF S.context.current_mode = InterfaceMode THEN
        IF is_some(S.context.selected_interface) THEN
            LET interface == unwrap(S.context.selected_interface)
            IN  IF interface \in DOMAIN S.IP_ADDRESS_STATE
                THEN Ok([S EXCEPT !.STATUS_MAP = Insert(@, interface, FALSE)])
                ELSE Ok(S)
        ELSE Err("No interface selected. Use the 'interface' command first.", S)
    ELSE Err("The 'shutdown' command is only available in Interface Configuration mode.", S)

\* The crypto arm of the no callback, in ConfigMode.
NoCrypto(args, S) ==
    IF Len(args) < 2 THEN Err("Crypto command to negate required", S)
    ELSE IF args[2] = "dynamic-map" THEN
        IF Len(args) < 3 THEN Err("Dynamic map name required", S)
        ELSE IF args[3] \in DOMAIN S.context.config.crypto_dynamic_maps
        THEN Ok([S EXCEPT !.context.config.crypto_dynamic_maps = Remove(@, args[3])])
        ELSE Err("Dynamic map not found", S)
    ELSE IF args[2] = "engine" THEN
        IF get(args, 2) = Some("accelerator")
        THEN Ok([S EXCEPT !.context.config.crypto_engine_accelerator = None])
        ELSE Err("Invalid engine command to negate", S)
    ELSE IF args[2] = "ipsec" THEN
        IF get(args, 2) = Some("security-association") THEN
            IF Len(args) < 5 \/ args[4] # "lifetime" THEN
                Err("Usage: no crypto ipsec security-association lifetime {seconds | kilobytes}", S)
            ELSE IF args[5] = "seconds"
            THEN Ok([S EXCEPT !.context.config.crypto_ipsec_lifetime.seconds = None])
            ELSE IF args[5] = "kilobytes"
            THEN Ok([S EXCEPT !.context.config.crypto_ipsec_lifetime.kilobytes = None])
            ELSE Err("Invalid lifetime parameter", S)
        ELSE IF get(args, 2) = Some("transform-set") THEN
            IF Len(args) < 4 THEN Err("Transform set name required", S)
            ELSE IF args[4] \in DOMAIN S.context.config.crypto_transform_sets
            THEN Ok([S EXCEPT !.context.config.crypto_transform_sets = Remove(@, args[4])])
            ELSE Err("Transform set not found", S)
        ELSE Err("Invalid ipsec command to negate", S)
    ELSE IF args[2] = "map" THEN
        IF Len(args) < 3 THEN Err("Map name required", S)
        ELSE IF get(args, 3) = Some("local-address") THEN
            IF args[3] \in DOMAIN S.context.config.crypto_local_addresses
            THEN Ok([S EXCEPT !.context.config.crypto_local_addresses = Remove(@, args[3])])
            ELSE Err("Crypto map local address not found", S)
        ELSE IF args[3] \in DOMAIN S.context.config.crypto_maps
        THEN Ok([S EXCEPT !.context.config.crypto_maps = Remove(@, args[3])])
        ELSE Err("Crypto map not found", S)
    ELSE Err("Invalid crypto command to negate", S)

exec_no(args, S, env) ==
    IF Len(args) = 1 /\ args[1] = "shutdown" THEN
        IF S.context.current_mode = InterfaceMode THEN
            IF is_some(S.context.selected_interface) THEN
                IF unwrap(S.context.selected_interface) \in DOMAIN S.IP_ADDRESS_STATE
                THEN Ok([S EXCEPT !.STATUS_MAP = Insert(@, unwrap(S.context.selected_interface), TRUE)])
                ELSE Err("Invalid interface.", S)
            ELSE Err("No interface selected. Use the 'interface' command first.", S)
        ELSE Err("The 'no shutdown' command is only available in Interface Configuration mode.", S)
    ELSE IF Len(args) = 3 /\ args[1] = "ntp" /\ args[2] = "server" THEN
        IF S.context.current_mode = ConfigMode THEN
            IF args[3] \in S.context.ntp_servers THEN
                LET Other(assoc) == assoc.address # args[3]
                IN  Ok([S EXCEPT !.context.ntp_servers = @ \ {args[3]},
                                 !.context.ntp_associations = SelectSeq(@, Other)])
            ELSE Err("NTP server not found.", S)
        ELSE Err("The 'no ntp server' command is only available in configuration mode.", S)
    ELSE IF args = <<>> THEN Panic(S)
    ELSE IF args[1] = "crypto" THEN
        IF S.context.current_mode = ConfigMode THEN NoCrypto(args, S)
        ELSE Err("The 'no crypto' commanda are only available in Global Configuration mode.", S)
    ELSE Err("Invalid arguments provided to 'no'.", S)

exec_router(args, S, env) ==
    IF S.context.current_mode = ConfigMode THEN
        IF Len(args) = 2 /\ args[1] = "ospf" THEN
            IF is_some(parse_u32(args[2])) /\ unwrap(parse_u32(args[2])) > 0 THEN
                Ok(SetMode([S EXCEPT !.OSPF_CONFIG.process_id = parse_u32(args[2])],
                           RouterConfigMode, "(config-router)#"))
            ELSE Err("Invalid process ID provided. It must be a positive integer.", S)
        ELSE Err("The 'router ospf' command requires exactly one argument: the process ID.", S)
    ELSE Err("The 'router ospf' command is only available in Global Configuration mode.", S)

exec_network(args, S, env) ==
    IF S.context.current_mode = RouterConfigMode THEN
        IF Len(args) = 4 THEN
            IF is_none(parse_u32(args[4])) \/ args[1] = "" \/ args[2] = "" THEN
                Err("Invalid arguments provided. Usage: network <ip-address> <wildcard-mask> area <area-id>", S)
            ELSE Ok([S EXCEPT !.OSPF_CONFIG.networks =
                        Insert(@, <<args[1], " ", args[2]>>, unwrap(parse_u32(args[4])))])
        ELSE Err("The 'network' command requires three arguments: <ip-address> <wildcard-mask> area <area-id>.", S)
    ELSE Err("The 'network' command is only available in Router Configuration mode.", S)

exec_neighbor(args, S, env) ==
    IF S.context.current_mode = RouterConfigMode THEN
        IF args = <<>> THEN Err("Usage: neighbor <ip-address> [cost <number>]", S)
        ELSE IF is_none(Ipv4Addr_from_str(args[1])) THEN Panic(S)
        ELSE IF Len(args) = 3 /\ args[2] = "cost" THEN
            IF is_some(parse_u32(args[3])) THEN
                Ok([S EXCEPT !.OSPF_CONFIG.neighbors =
                        Insert(@, unwrap(Ipv4Addr_from_str(args[1])), parse_u32(args[3]))])
            ELSE Err("Invalid cost value. It must be a positive integer.", S)
        ELSE IF Len(args) # 1 THEN Err("Usage: neighbor <ip-address> [cost <number>]", S)
        ELSE Ok([S EXCEPT !.OSPF_CONFIG.neighbors =
                    Insert(@, unwrap(Ipv4Addr_from_str(args[1])), None)])
    ELSE Err("The 'neighbor' command is only available in Router Configuration mode.", S)

\* validates and prints, stores nothing
exec_area(args, S, env) ==
    IF S.context.current_mode = RouterConfigMode THEN
        IF args = <<>> THEN Err("Usage: area <area-id> <subcommand> [options]", S)
        ELSE IF get(args, 1) = Some("authentication") THEN
            IF Len(args) = 2 THEN Ok(S) ELSE Err("Usage: area <area-id> authentication", S)
        ELSE IF get(args, 1) = Some("stub") THEN
            IF Len(args) = 2 \/ (Len(args) = 3 /\ args[3] = "no-summary") THEN Ok(S)
            ELSE Err("Usage: area <area-id> stub [no-summary]", S)
        ELSE IF get(args, 1) = Some("default-cost") THEN
            IF Len(args) = 3 THEN
                IF is_some(parse_u32(args[3])) THEN Ok(S)
                ELSE Err("Invalid cost value. It must be a positive integer.", S)
            ELSE Err("Usage: area <area-id> default-cost <cost>", S)
        ELSE Err("Invalid subcommand. Valid subcommands: authentication, stub, default-cost", S)
    ELSE Err("The 'area' command is only available in Router Configuration mode.", S)

exec_passive_interface(args, S, env) ==
    IF S.context.current_mode = RouterConfigMode THEN
        IF args # <<>> THEN Ok([S EXCEPT !.OSPF_CONFIG.passive_interfaces = Append(@, args[1])])
        ELSE Err("Usage: passive-interface <interface>", S)
    ELSE Err("The 'passive-interface' command is only available in Router OSPF mode.", S)

exec_distance(args, S, env) ==
    IF S.context.current_mode = RouterConfigMode THEN
        IF args # <<>> THEN
            IF is_some(parse_u32(args[1])) THEN Ok([S EXCEPT !.OSPF_CONFIG.distance = parse_u32(args[1])])
            ELSE Err("Invalid distance value. Must be a number.", S)
        ELSE Err("Usage: distance <value>", S)
    ELSE Err("The 'distance' command is only available in Router OSPF mode.", S)

exec_default_information(args, S, env) ==
    IF S.context.current_mode = RouterConfigMode THEN
        IF get(args, 0) = Some("originate") THEN Ok(S)
        ELSE Err("Usage: default-information originate", S)
    ELSE Err("The 'default-information originate' command is only available in Router OSPF mode.", S)

exec_router_id(args, S, env) ==
    IF S.context.current_mode = RouterConfigMode THEN
        IF args # <<>> THEN Ok([S EXCEPT !.OSPF_CONFIG.router_id = Some(args[1])])
        ELSE Err("Usage: router-id <id>", S)
    ELSE Err("The 'router-id' command is only available in Router OSPF mode.", S)

\* OSPFConfig::new
OSPFConfig_new ==
    [ passive_interfaces |-> <<>>, distance |-> None, default_information_originate |-> FALSE,
      router_id |-> None, areas |-> EmptyMap, networks |-> EmptyMap, neighbors |-> EmptyMap,
      process_id |-> None ]

\* With no argument the callback runs the terminal's clear program and
\* unwraps its status; the program is taken to be installed and to start.
exec_clear(args, S, env) ==
    IF args = <<>> THEN Ok(S)
    ELSE IF S.context.current_mode = PrivilegedMode THEN
        IF Len(args) = 3 /\ args[1] = "ip" /\ args[2] = "ospf" /\ args[3] = "process" THEN
            IF to_lowercase(env.stdin[1]) \in {"yes", "y"}
            THEN Reading(1, Ok([S EXCEPT !.OSPF_CONFIG = OSPFConfig_new]))
            ELSE Reading(1, Ok(S))
        ELSE Err("Invalid arguments provided to 'clear ip ospf process'. This command does not accept additional arguments.", S)
    ELSE Err("The 'clear ip ospf process' command is only available in EXEC mode.", S)

AclEntry(action, source, destination, protocol, sop, sport, dop, dport) ==
    [ action |-> action, source |-> source, destination |-> destination, protocol |-> protocol,
      matches |-> None, source_operator |-> sop, source_port |-> sport,
      destination_operator |-> dop, destination_port |-> dport ]

PushEntry(store, name, entry) ==
    IF name \in DOMAIN store
    THEN [store EXCEPT ![name].entries = Append(@, entry)]
    ELSE Insert(store, name, [number_or_name |-> name, entries |-> <<entry>>])

exec_access_list(args, S, env) ==
    IF S.context.current_mode = ConfigMode THEN
        IF Len(args) >= 3 THEN
            IF Len(args) < 4 THEN Panic(S)
            ELSE IF is_none(Ipv4Addr_from_str(args[4])) THEN Panic(S)
            ELSE IF Len(args) > 4 /\ is_none(Ipv4Addr_from_str(args[5])) THEN Panic(S)
            ELSE
                LET source == Ipv4Addr_to_string(unwrap(Ipv4Addr_from_str(args[4])))
                    destination == IF Len(args) > 4
                                   THEN Ipv4Addr_to_string(unwrap(Ipv4Addr_from_str(args[5])))
                                   ELSE "any"
                IN  Ok([S EXCEPT !.ACL_STORE =
                            PushEntry(@, args[1], AclEntry(args[2], source, destination,
                                                           None, None, None, None, None))])
        ELSE Err("Invalid syntax. Use 'access-list <number> <protocol> {deny|permit} <source_ip> <wildcard_mask>'.", S)
    ELSE Err("The 'access-list' command is only available in global configuration mode.", S)

\* The deny and permit callbacks differ in the action they record only.
AclRule(action, args, S) ==
    LET acl_name == S.context.current_mode.acl
    IN  IF S.context.current_mode.tag = "ConfigStdNaclMode" THEN
            IF Len(args) >= 1 THEN
                IF is_none(Ipv4Addr_from_str(args[1])) THEN Panic(S)
                ELSE IF Len(args) > 1 /\ is_none(Ipv4Addr_from_str(args[2])) THEN Panic(S)
                ELSE IF acl_name \in DOMAIN S.ACL_STORE THEN
                    Ok([S EXCEPT !.ACL_STORE[acl_name].entries =
                            Append(@, AclEntry(action,
                                Ipv4Addr_to_string(unwrap(Ipv4Addr_from_str(args[1]))),
                                IF Len(args) > 1
                                THEN Ipv4Addr_to_string(unwrap(Ipv4Addr_from_str(args[2])))
                                ELSE "0.0.0.0",
                                None, None, None, None, None))])
                ELSE ErrF(<<"ACL '", acl_name, "' not found.">>, S)
            ELSE Err("Invalid syntax. Use '<action> <ip> <wildcard mask>'.", S)
        ELSE IF S.context.current_mode.tag = "ConfigExtNaclMode" THEN
            IF Len(args) >= 3 THEN
                IF is_none(Ipv4Addr_from_str(args[2])) THEN Panic(S)
                ELSE IF Len(args) < 5 THEN Panic(S)
                ELSE IF is_none(Ipv4Addr_from_str(args[5])) THEN Panic(S)
                ELSE IF acl_name \in DOMAIN S.ACL_STORE THEN
                    Ok([S EXCEPT !.ACL_STORE[acl_name].entries =
                            Append(@, AclEntry(action,
                                Ipv4Addr_to_string(unwrap(Ipv4Addr_from_str(args[2]))),
                                Ipv4Addr_to_string(unwrap(Ipv4Addr_from_str(args[5]))),
                                Some(to_lowercase(args[1])), Some(to_lowercase(args[3])),
                                get(args, 3),
                                IF Len(args) >= 6 THEN Some(to_lowercase(args[6])) ELSE None,
                                get(args, 6)))])
                ELSE ErrF(<<"ACL '", acl_name, "' not found.">>, S)
            ELSE Err("Invalid syntax. Use '<action> <protocol> <src_ip> <dest_ip>'.", S)
        ELSE Err("This command is only available in ACL configuration mode.", S)

exec_deny(args, S, env) == AclRule("deny", args, S)

exec_permit(args, S, env) == AclRule("permit", args, S)

\* format!("{}.{}", hostname, domain_name or "default_domain")
KeyName(S) ==
    << S.context.config.hostname, ".",
       IF is_some(S.context.config.domain_name)
       THEN unwrap(S.context.config.domain_name) ELSE "default_domain" >>

CryptoIpsec(args, S) ==
    IF Len(args) >= 2 /\ args[2] = "profile" THEN
        IF Len(args) = 3 THEN Ok([S EXCEPT !.context.config.crypto_ipsec_profile = Some(args[3])])
        ELSE Err("Invalid arguments. Use 'crypto ipsec profile <profile-name>'.", S)
    ELSE IF Len(args) < 2 THEN Panic(S)
    ELSE IF args[2] = "security-association" THEN
        IF Len(args) < 5 \/ args[3] # "lifetime" THEN
            Err("Usage: crypto ipsec security-association lifetime {seconds <seconds> | kilobytes <kilobytes>}", S)
        ELSE IF args[4] = "seconds" THEN
            IF is_some(parse_u32(args[5]))
            THEN Ok([S EXCEPT !.context.config.crypto_ipsec_lifetime.seconds = parse_u32(args[5])])
            ELSE Err("Invalid seconds value", S)
        ELSE IF args[4] = "kilobytes" THEN
            IF is_some(parse_u32(args[5]))
            THEN Ok([S EXCEPT !.context.config.crypto_ipsec_lifetime.kilobytes = parse_u32(args[5])])
            ELSE Err("Invalid kilobytes value", S)
        ELSE Err("Invalid lifetime parameter. Use 'seconds' or 'kilobytes'.", S)
    ELSE IF args[2] = "transform-set" THEN
        IF Len(args) < 4 THEN
            Err("Usage: crypto ipsec transform-set <transform-set-name> <transform1> [transform2] [transform3]", S)
        ELSE Ok([S EXCEPT !.context.config.crypto_transform_sets =
                    Insert(@, args[3], SubSeq(args, 4, Len(args)))])
    ELSE Err("Invalid ipsec subcommand. Use 'crypto ipsec profile <profile-name>' or 'crypto ipsec security-association lifetime <s/kb>'.", S)

CryptoKey(args, S) ==
    IF Len(args) < 2 THEN
        Err("Subcommand required. Use 'generate' to create keys, or 'zeroize' to delete keys.", S)
    ELSE IF args[2] = "generate" THEN
        IF Len(args) > 2 /\ args[3] \in {"rsa", "dsa"} THEN
            Ok([S EXCEPT !.context.config.crypto_keys =
                    Insert(@, KeyName(S), <<"generated", args[3], KeyName(S), "2048">>)])
        ELSE Err("Invalid generate command. Use 'crypto key generate <rsa|dsa>'.", S)
    ELSE IF args[2] = "zeroize" THEN
        IF Len(args) > 2 /\ args[3] \in {"rsa", "dsa"} THEN
            Ok([S EXCEPT !.context.config.crypto_keys = Remove(@, KeyName(S))])
        ELSE Err("Invalid zeroize command. Use 'crypto key zeroize <rsa|dsa>'.", S)
    ELSE IF args[2] = "import" THEN
        IF Len(args) > 2 /\ args[3] \in {"rsa", "dsa"} THEN
            Ok([S EXCEPT !.context.config.crypto_keys =
                    Insert(@, <<"imported_", args[3]>>, <<"imported", args[3]>>)])
        ELSE Err("Invalid import command. Use 'crypto key import <rsa|dsa>'.", S)
    ELSE Err("Invalid key subcommand. Available subcommands: 'generate rsa', 'zeroize rsa'.", S)

CryptoCertificate(args, S) ==
    IF Len(args) < 2 THEN
        Err("Subcommand required. Use 'generate' to create keys, or 'zeroize' to delete certificates.", S)
    ELSE IF args[2] = "generate" THEN
        IF Len(args) < 3 THEN Err("Certificate name required. Use 'crypto certificate generate <name>'.", S)
        ELSE Ok([S EXCEPT !.context.config.certificates =
                    Insert(@, args[3], <<"self-signed", KeyName(S)>>)])
    ELSE IF args[2] = "request" THEN
        IF Len(args) < 3 THEN Err("Certificate name required. Use 'crypto certificate request <name>'.", S)
        ELSE Ok(S)
    ELSE IF args[2] = "import" THEN
        IF Len(args) < 3 THEN Err("Certificate name required. Use 'crypto certificate import <name>'.", S)
        ELSE Ok([S EXCEPT !.context.config.certificates = Insert(@, args[3], <<"imported", args[3]>>)])
    ELSE Err("Invalid key subcommand. Available subcommands: 'generate rsa', 'zeroize rsa'.", S)

CryptoMap(args, S) ==
    IF Len(args) < 3 THEN Err("Usage: crypto map <map-name> <seq-num> ipsec-manual", S)
    ELSE IF is_none(parse_u32(args[3])) THEN Err("Invalid sequence number", S)
    ELSE IF get(args, 3) = Some("local-address") THEN
        IF Len(args) < 5 THEN
            Err("Usage: crypto map <map-name> <seq-num> local-address <interface-id>", S)
        ELSE Ok([S EXCEPT !.context.config.crypto_local_addresses = Insert(@, args[2], args[5])])
    ELSE Ok([S EXCEPT !.context.config.crypto_maps =
                Insert(@, args[2], [name |-> args[2], seq_num |-> unwrap(parse_u32(args[3])),
                                    interface_id |-> None])])

exec_crypto(args, S, env) ==
    IF S.context.current_mode # ConfigMode THEN
        Err("Crypto commands are only available in Config mode.", S)
    ELSE IF args = <<>> THEN
        Err("Subcommand required. Available subcommands: 'ipsec profile', 'key'.", S)
    ELSE IF args[1] = "ipsec" THEN CryptoIpsec(args, S)
    ELSE IF args[1] = "key" THEN CryptoKey(args, S)
    ELSE IF args[1] = "certificate" THEN CryptoCertificate(args, S)
    ELSE IF args[1] = "dynamic-map" THEN
        IF Len(args) < 3 THEN Err("Usage: crypto dynamic-map <dynamic-map-name> <dynamic-seq-num>", S)
        ELSE IF is_none(parse_u32(args[3])) THEN Err("Invalid sequence number", S)
        ELSE Ok([S EXCEPT !.context.config.crypto_dynamic_maps =
                    Insert(@, args[2], [name |-> args[2], seq_num |-> unwrap(parse_u32(args[3]))])])
    ELSE IF args[1] = "engine" THEN
        IF get(args, 1) # Some("accelerator") THEN Err("Usage: crypto engine accelerator [slot]", S)
        ELSE IF Len(args) > 2 THEN
            IF is_some(parse_u32(args[3]))
            THEN Ok([S EXCEPT !.context.config.crypto_engine_accelerator = parse_u32(args[3])])
            ELSE Err("Invalid slot number", S)
        ELSE Ok([S EXCEPT !.context.config.crypto_engine_accelerator = None])
    ELSE IF args[1] = "map" THEN CryptoMap(args, S)
    ELSE Err("Invalid crypto subcommand. Available subcommands: 'ipsec profile', 'key'.", S)

exec_set(args, S, env) ==
    IF S.context.current_mode = ConfigMode THEN
        IF Len(args) = 1 THEN
            Err("Invalid command. The command should be set transform-set <transform set name>", S)
        ELSE Ok([S EXCEPT !.context.config.transform_sets = Some(args)])
    ELSE Err("The 'set transform-set' command is only available in Config mode.", S)

exec_service(args, S, env) ==
    IF S.context.current_mode = ConfigMode THEN
        IF Len(args) = 1 /\ args[1] = "password-encryption" THEN
            LET stored_password == S.PASSWORD_STORAGE.enable_password
                stored_secret == S.PASSWORD_STORAGE.enable_secret
            IN  Ok([S EXCEPT
                    !.context.config.encrypted_password =
                        IF is_some(stored_password)
                        THEN Some(encrypt_password(unwrap(stored_password))) ELSE @,
                    !.context.config.encrypted_secret =
                        IF is_some(stored_secret)
                        THEN Some(encrypt_password(unwrap(stored_secret))) ELSE @,
                    !.context.config.password_encryption = TRUE])
        ELSE Err("Invalid arguments provided to 'service password-encryption'. This command does not accept additional arguments.", S)
    ELSE Err("The 'service password-encryption' command is only available in Privileged EXEC mode.", S)

exec_tunnel(args, S, env) ==
    IF S.context.current_mode = ConfigMode THEN
        IF args = <<>> THEN
            Err("Invalid arguments. Please specify a subcommand like 'mode', 'source', 'destination', 'protection', or 'virtual-template'.", S)
        ELSE IF args[1] = "mode" THEN
            IF Len(args) = 3 /\ args[2] = "ipsec" /\ args[3] = "ipv4"
            THEN Ok([S EXCEPT !.context.config.tunnel_mode = Some("ipsec ipv4")])
            ELSE Err("Invalid arguments for 'mode'. Use 'mode ipsec ipv4'.", S)
        ELSE IF args[1] = "source" THEN
            IF Len(args) = 2 THEN Ok([S EXCEPT !.context.config.tunnel_source = Some(args[2])])
            ELSE Err("Invalid arguments for 'source'. Use 'source <interface>'.", S)
        ELSE IF args[1] = "destination" THEN
            IF Len(args) = 2 THEN
                IF is_none(Ipv4Addr_from_str(args[2])) THEN Panic(S)
                ELSE Ok([S EXCEPT !.context.config.tunnel_destination =
                            Some(Ipv4Addr_to_string(unwrap(Ipv4Addr_from_str(args[2]))))])
            ELSE Err("Invalid arguments for 'destination'. Use 'destination <ip-address>'.", S)
        ELSE IF args[1] = "protection" THEN
            IF Len(args) = 4 /\ args[2] = "ipsec" /\ args[3] = "profile"
            THEN Ok([S EXCEPT !.context.config.tunnel_protection_profile = Some(args[4])])
            ELSE Err("Invalid arguments for 'protection'. Use 'protection ipsec profile <profile-name>'.", S)
        ELSE Err("Invalid subcommand. Use 'mode', 'source', 'destination' or 'protection'.", S)
    ELSE Err("The 'tunnel' command is only available in Config mode.", S)

exec_virtual_template(args, S, env) ==
    IF S.context.current_mode = ConfigMode THEN
        IF Len(args) = 1 THEN
            IF is_some(parse_u32(args[1])) THEN Ok([S EXCEPT !.context.config.virtual_template = Some(args[1])])
            ELSE Err("Invalid argument for 'virtual-template'. The template number must be a valid number.", S)
        ELSE Err("Invalid arguments for 'virtual-template'. Use 'virtual-template <number>'.", S)
    ELSE Err("The 'virtual-template' command is only available in Configuration mode.", S)

\* (cmd.execute)(args, context, clock) for the command registered as name
execute(name, args, S, env) ==
    CASE name = "enable" -> exec_enable(args, S, env)
      [] name = "configure" -> exec_configure(args, S, env)
      [] name = "interface" -> exec_interface(args, S, env)
      [] name = "exit" -> exec_exit(args, S, env)
      [] name = "reload" -> exec_reload(args, S, env)
      [] name = "debug" -> exec_debug(args, S, env)
      [] name = "undebug" -> exec_undebug(args, S, env)
      [] name = "hostname" -> exec_hostname(args, S, env)
      [] name = "ifconfig" -> exec_ifconfig(args, S, env)
      [] name = "write" -> exec_write(args, S, env)
      [] name = "copy" -> exec_copy(args, S, env)
      [] name = "help" -> exec_help(args, S, env)
      [] name = "clock" -> exec_clock(args, S, env)
      [] name = "ntp" -> exec_ntp(args, S, env)
      [] name = "ping" -> exec_ping(args, S, env)
      [] name = "show" -> exec_show(args, S, env)
      [] name = "ip" -> exec_ip(args, S, env)
      [] name = "shutdown" -> exec_shutdown(args, S, env)
      [] name = "no" -> exec_no(args, S, env)
      [] name = "router" -> exec_router(args, S, env)
      [] name = "network" -> exec_network(args, S, env)
      [] name = "neighbor" -> exec_neighbor(args, S, env)
      [] name = "area" -> exec_area(args, S, env)
      [] name = "passive-interface" -> exec_passive_interface(args, S, env)
      [] name = "distance" -> exec_distance(args, S, env)
      [] name = "default-information" -> exec_default_information(args, S, env)
      [] name = "router-id" -> exec_router_id(args, S, env)
      [] name = "clear" -> exec_clear(args, S, env)
      [] name = "access-list" -> exec_access_list(args, S, env)
      [] name = "deny" -> exec_deny(args, S, env)
      [] name = "permit" -> exec_permit(args, S, env)
      [] name = "crypto" -> exec_crypto(args, S, env)
      [] name = "set" -> exec_set(args, S, env)
      [] name = "service" -> exec_service(args, S, env)
      [] name = "tunnel" -> exec_tunnel(args, S, env)
      [] name = "virtual-template" -> exec_virtual_template(args, S, env)

----------------------------------------------------------------------------
\* execute.rs: execute_command

\* What the dispatcher printed: a heading and the items listed under it.
Printed(text, list) == [text |-> text, list |-> list]

Silent == Printed("", <<>>)

Contains(q, x) == \E i \in 1..Len(q) : q[i] = x

\* The outcome of the dispatcher when no callback is called.
NotCalled(S, out) == [called |-> None, r |-> Ok(S), out |-> out]

\* The outcome of the dispatcher that called cmd with args.
Called(cmd, args, S, env) ==
    LET r == execute(cmd, args, S, env)
    IN  [ called |-> Some([cmd |-> cmd, args |-> args]), r |-> r,
          out |-> IF r.res = "err" THEN Printed("Error: ", r.msg) ELSE Silent ]

\* The commands execute_command prints for a bare '?', mode by mode, each
\* under the name it is printed with (the description is left out).
HelpListing(tag) ==
    CASE tag = "UserMode" -> <<"enable", "exit", "ping", "help", "reload", "clear", "show">>
      [] tag = "PrivilegedMode" ->
            <<"configure", "exit", "help", "write", "copy", "clock", "clear ip ospf process",
              "ping", "show", "ifconfig", "reload", "clear", "debug", "undebug">>
      [] tag = "ConfigMode" ->
            <<"hostname", "interface", "exit", "tunnel", "virtual-template", "help", "write",
              "ping", "vlan", "access-list", "router", "enable", "ip route", "ip domain-name",
              "ip access-list", "service", "set", "ifconfig", "ntp", "crypto", "reload",
              "clear">>
      [] tag = "InterfaceMode" ->
            <<"exit", "shutdown", "no", "switchport", "help", "write", "interface",
              "ip address", "ip ospf", "reload", "clear">>
      [] tag = "VlanMode" -> <<"name", "exit", "state", "vlan", "reload", "clear", "help">>
      [] tag = "RouterConfigMode" ->
            <<"network", "exit", "neighbor", "area", "passive-interface", "distance",
              "default-information", "router-id", "reload", "clear", "help">>
      [] tag \in {"ConfigStdNaclMode", "ConfigExtNaclMode"} ->
            <<"deny", "permit", "exit", "ip access-list", "reload", "clear", "help">>
      [] OTHER -> <<>>

\* A help that shows the options of a command and never its subcommands.
ShowSuggestions_options(l, S) ==
    IF Len(l.toks) >= 1 /\ l.toks[1] \in SeqRange(RegistryKeys) /\ is_some(options[l.toks[1]])
    THEN Printed("Possible completions:", unwrap(options[l.toks[1]]))
    ELSE Printed("No more options available", <<>>)

\* A help that shows every subcommand, whatever was typed of it.
ShowSuggestions_unfiltered(l, S) ==
    IF Len(l.toks) = 2 /\ l.toks[1] \in SeqRange(RegistryKeys) /\ is_some(suggestions1[l.toks[1]])
    THEN Printed("Possible completions:", unwrap(suggestions1[l.toks[1]]))
    ELSE Printed("No additional parameters available", <<>>)

\* The branch of execute_command for a line ending with '?'.
ShowSuggestions(l, S) ==
    LET parts == l.toks
        available_commands == get_mode_commands(RegistryKeys, S.context.current_mode)
        registered(c) == c \in SeqRange(RegistryKeys)
        OptionsOr(c, nothing) ==
            IF ~registered(c) THEN Silent
            ELSE IF is_some(options[c]) THEN Printed("Possible completions:", unwrap(options[c]))
            ELSE Printed(nothing, <<>>)
    IN  IF Len(parts) = 0 THEN Printed("Available commands", HelpListing(S.context.current_mode.tag))
        ELSE IF Len(parts) = 1 THEN
            IF Contains(available_commands, parts[1]) THEN
                IF is_some(suggestions1[parts[1]])
                THEN Printed("Possible completions:", unwrap(suggestions1[parts[1]]))
                ELSE OptionsOr(parts[1], "No subcommands or more options available")
            ELSE
                LET Match(c) == starts_with(c, parts[1])
                    suggestions == SelectSeq(available_commands, Match)
                IN  IF suggestions # <<>>
                    THEN Printed("Possible completions for", suggestions)
                    ELSE OptionsOr(parts[1], "No more options available")
        ELSE IF Len(parts) = 2 THEN
            IF Contains(available_commands, parts[1]) /\ ~l.sp THEN
                IF is_some(suggestions1[parts[1]]) THEN
                    LET Match(c) == starts_with(c, parts[2])
                        matching == SelectSeq(unwrap(suggestions1[parts[1]]), Match)
                    IN  IF matching # <<>> THEN Printed("Possible completions:", matching)
                        ELSE Printed("No matching commands found", <<>>)
                ELSE Printed("No subcommands available", <<>>)
            ELSE OptionsOr(parts[1], "No more options available")
        ELSE Printed("No additional parameters available", <<>>)

\* The branch of execute_command for a line to execute.
\* A shaping that hands every token over as typed.
ShapeArgs_verbatim(cmd_key, parts) == Some(Tail(parts))

\* The arguments the callback of cmd_key gets for the tokens parts, None
\* when the line is refused for its subcommand.
ShapeArgs(cmd_key, parts) ==
    IF is_some(suggestions1[cmd_key]) THEN
        IF Len(parts) = 1 THEN None
        ELSE IF Len(parts) = 2 THEN
            IF unwrap(suggestions1[cmd_key]) = <<>> THEN Some(Tail(parts))
            ELSE IF is_some(find_unique_subcommand(parts[2], unwrap(suggestions1[cmd_key])))
            THEN Some(<<unwrap(find_unique_subcommand(parts[2], unwrap(suggestions1[cmd_key])))>>)
            ELSE None
        ELSE Some(Tail(parts))
    ELSE Some(Tail(parts))

\* The execution of cmd_key, the command the first token resolved to.
RunMatched(cmd_key, shaped, parts, S, env) ==
    IF is_some(shaped) THEN Called(cmd_key, unwrap(shaped), S, env)
    ELSE IF Len(parts) = 1
    THEN NotCalled(S, Printed("Incomplete command. Subcommand required.", <<>>))
    ELSE NotCalled(S, Printed("Ambiguous or invalid subcommand: ", <<parts[2]>>))

\* The line once its first token is matched against the mode's commands.
RunResolved(matched_cmd, parts, S, env) ==
    IF is_none(matched_cmd) THEN
        NotCalled(S, Printed("Ambiguous command or command not available in current mode: ",
                             <<parts[1]>>))
    ELSE RunMatched(unwrap(matched_cmd), ShapeArgs(unwrap(matched_cmd), parts), parts, S, env)

\* The branch of execute_command for a line to execute.
RunCommand(l, S, env) ==
    RunResolved(find_unique_command(l.toks[1],
                    get_mode_commands(RegistryKeys, S.context.current_mode)),
                l.toks, S, env)

\* What main and execute_command derive from the buffer before anything
\* is looked up: raw is the trimmed input, q says whether it ends with '?',
\* toks is split_whitespace of the input without its trailing '?'s, sp says
\* whether a blank precedes them.
Normalized(input, showing_suggestions, normalized_input) ==
    [ raw  |-> Str(input),
      q    |-> showing_suggestions,
      toks |-> [i \in 1..Len(split_whitespace(normalized_input)) |->
                   Str(split_whitespace(normalized_input)[i])],
      sp   |-> normalized_input # <<>> /\ normalized_input[Len(normalized_input)] = " " ]

EndsWithQuestion(input) == input # <<>> /\ input[Len(input)] = "?"

Line(buffer) ==
    Normalized(trim(Spell[buffer]), EndsWithQuestion(trim(Spell[buffer])),
               IF EndsWithQuestion(trim(Spell[buffer]))
               THEN trim_end_matches(trim(Spell[buffer]), "?")
               ELSE trim(Spell[buffer]))

\* The input lines of the loop.
Lines == {Line(b) : b \in Buffers}

\* A dispatcher that takes a line with tokens for a command to run, with
\* or without the '?'.
execute_command_run(l, S, env) ==
    IF l.q /\ l.toks = <<>> THEN NotCalled(S, ShowSuggestions(l, S)) ELSE RunCommand(l, S, env)

execute_command(l, S, env) ==
    IF l.q THEN NotCalled(S, ShowSuggestions(l, S)) ELSE RunCommand(l, S, env)

----------------------------------------------------------------------------
\* main.rs: the read-eval loop

VARIABLES
    context,            \* the CliContext of main
    clock,              \* the Option<Clock> of main
    IFCONFIG_STATE, STATUS_MAP, IP_ADDRESS_STATE, ROUTE_TABLE, OSPF_CONFIG,
    ACL_STORE, PASSWORD_STORAGE,    \* the stores of network_config.rs
    files,              \* the files written by copy, by name
    helper_mode,        \* current_mode of the completer
    pc,                 \* "loop": at the head of the loop; "readline": the prompt is shown
    status,             \* "running", "finished" (the loop was left), "exited", "panicked"
    prompt,             \* the prompt of this iteration
    input,              \* the line read in this iteration, if one was
    called,             \* the callback execute_command called, with its arguments
    result,             \* how that callback ended: "ok", "err", "panic", "exit"; "none"
    printed,            \* what the dispatcher printed
    typed,              \* the lines the callback read from the terminal
    nlines,             \* how many lines were read so far
    probe,              \* a question put to the matcher, and its answer
    DYNAMIC_COMMANDS,   \* the dynamic registry of dynamic_registry.rs, by name
    MODE_PERMISSIONS,   \* the modes a dynamic command was registered for, by name
    walk,               \* a call of walkup_find_command: its arguments, locals and result
    command_context,    \* the CommandContext of walkup.rs, and its call under way
    held,               \* the stores whose lock the thread holds
    run                 \* a callback under way: its line, its lock events, its position

stores ==
    << IFCONFIG_STATE, STATUS_MAP, IP_ADDRESS_STATE, ROUTE_TABLE, OSPF_CONFIG,
       ACL_STORE, PASSWORD_STORAGE >>

progVars == << context, clock, stores, files, helper_mode >>

replVars == << pc, status, prompt, input, called, result, printed, typed, nlines >>

dynVars == << DYNAMIC_COMMANDS, MODE_PERMISSIONS, walk, command_context >>

lockVars == << held, run >>

vars == << progVars, replVars, probe, dynVars, lockVars >>

\* How many lines a run reads at most.
MaxLines == 4

\* CliConfig::default
CliConfig_default ==
    [ running_config |-> None, startup_config |-> None, hostname |-> "SEM",
      crypto_ipsec_profile |-> None, transform_sets |-> None, tunnel_mode |-> None,
      tunnel_source |-> None, tunnel_destination |-> None,
      tunnel_protection_profile |-> None, virtual_template |-> None,
      enable_password |-> None, enable_secret |-> None, encrypted_password |-> None,
      encrypted_secret |-> None, password_encryption |-> FALSE, domain_name |-> None,
      last_written |-> None, crypto_keys |-> EmptyMap, certificates |-> EmptyMap,
      crypto_dynamic_maps |-> EmptyMap, crypto_engine_accelerator |-> None,
      crypto_ipsec_lifetime |-> [seconds |-> None, kilobytes |-> None],
      crypto_transform_sets |-> EmptyMap, crypto_maps |-> EmptyMap,
      crypto_local_addresses |-> EmptyMap ]

\* The context main builds.
InitialContext ==
    [ current_mode |-> UserMode, config |-> CliConfig_default,
      prompt |-> <<CliConfig_default.hostname, ">">>,
      selected_interface |-> None, selected_vlan |-> None, vlan_names |-> None,
      vlan_states |-> None, switchport_mode |-> None, trunk_encapsulation |-> None,
      native_vlan |-> None, allowed_vlans |-> {}, ntp_servers |-> {},
      ntp_associations |-> <<>>, ntp_authentication_enabled |-> FALSE,
      ntp_authentication_keys |-> EmptyMap, ntp_trusted_keys |-> {}, ntp_master |-> FALSE ]

\* Clock::new
Clock_new ==
    [ time |-> "", date |-> <<>>, custom_datetime |-> None, start_time |-> Now,
      device_model |-> "PNF" ]

\* The state the callbacks work on, gathered from the variables.
St ==
    [ context |-> context, clock |-> clock, IFCONFIG_STATE |-> IFCONFIG_STATE,
      STATUS_MAP |-> STATUS_MAP, IP_ADDRESS_STATE |-> IP_ADDRESS_STATE,
      ROUTE_TABLE |-> ROUTE_TABLE, OSPF_CONFIG |-> OSPF_CONFIG, ACL_STORE |-> ACL_STORE,
      PASSWORD_STORAGE |-> PASSWORD_STORAGE, files |-> files ]

\* No call of walkup_find_command is under way.
NoWalk == [pc |-> "idle", initial_mode |-> UserMode, command |-> "",
           current_mode |-> UserMode, examined |-> 0, found |-> None]

\* CommandContext::new, with no call of its execute_command under way:
\* command and entered are the argument of the call and the mode it began
\* in, result is how the last call ended.
CommandContext_new ==
    [ current_mode |-> UserMode, pc |-> "idle", command |-> "", entered |-> UserMode,
      result |-> "none" ]

\* No callback is under way.
NoRun == [pc |-> "idle", line |-> <<>>, env |-> <<>>, events |-> <<>>, pos |-> 0,
          outcome |-> <<>>]

NoProbe == [kind |-> "none", partial |-> "", candidates |-> <<>>, mode |-> UserMode,
            by |-> "none", answer |-> None]

InitProgram ==
    /\ context = InitialContext
    /\ clock = Some(Clock_new)
    /\ IFCONFIG_STATE =
          ("ens33" :> << unwrap(Ipv4Addr_from_str("192.168.253.135")),
                         calculate_broadcast(unwrap(Ipv4Addr_from_str("192.168.253.135")), 24) >>)
    /\ STATUS_MAP = ("ens33" :> FALSE)
    /\ IP_ADDRESS_STATE = EmptyMap
    /\ ROUTE_TABLE = EmptyMap
    /\ OSPF_CONFIG = OSPFConfig_new
    /\ ACL_STORE = EmptyMap
    /\ PASSWORD_STORAGE = [enable_password |-> None, enable_secret |-> None]
    /\ files = EmptyMap
    /\ DYNAMIC_COMMANDS = EmptyMap
    /\ MODE_PERMISSIONS = EmptyMap
    /\ walk = NoWalk
    /\ command_context = CommandContext_new
    /\ held = {}
    /\ run = NoRun
    /\ helper_mode = UserMode
    /\ pc = "loop"
    /\ status = "running"
    /\ prompt = <<>>
    /\ input = None
    /\ called = None
    /\ result = "none"
    /\ printed = Silent
    /\ typed = <<>>
    /\ nlines = 0

Init == InitProgram /\ probe = NoProbe

\* What a callback may read from the terminal, and how a file creation ends.
Typed == {"yes", "y", "no", "pw1", "pw2"}

Envs == [stdin : Typed \X Typed, fs : {"ok", "create_err", "write_err"}]

DefaultEnv == [stdin |-> <<"yes", "yes">>, fs |-> "ok"]

\* The environments that make a difference for line l: all of them when the
\* callback reads the terminal or creates a file, one otherwise.
EnvsFor(l) ==
    IF l.raw = "" \/ l.raw = "exit cli" THEN {DefaultEnv}
    ELSE IF \E o \in {execute_command(l, St, DefaultEnv)} : o.r.reads > 0 \/ o.r.io THEN Envs
    ELSE {DefaultEnv}

\* The head of the loop: the prompt is cloned from the context.
Prompt ==
    /\ pc = "loop" /\ status = "running"
    /\ pc' = "readline"
    /\ prompt' = context.prompt
    /\ input' = None /\ called' = None /\ result' = "none" /\ printed' = Silent /\ typed' = <<>>
    /\ UNCHANGED << progVars, status, nlines, probe, dynVars, lockVars >>

\* readline is about to return a line (at most MaxLines lines are read).
AtReadline == pc = "readline" /\ status = "running" /\ nlines < MaxLines

\* readline returned an empty line: the loop continues.
ReadEmpty(l) ==
    /\ AtReadline
    /\ l.raw = ""
    /\ pc' = "loop" /\ input' = Some(l) /\ nlines' = nlines + 1
    /\ UNCHANGED << progVars, status, prompt, called, result, printed, typed, probe, dynVars, lockVars >>

\* A loop that takes "exit cli" for a line of no consequence.
ReadExitCli_ignored(l) ==
    /\ AtReadline
    /\ l.raw = "exit cli"
    /\ pc' = "loop" /\ input' = Some(l) /\ nlines' = nlines + 1
    /\ UNCHANGED << progVars, status, prompt, called, result, printed, typed, probe, dynVars, lockVars >>

\* readline returned "exit cli": the loop is left.
ReadExitCli(l) ==
    /\ AtReadline
    /\ l.raw = "exit cli"
    /\ pc' = "loop" /\ input' = Some(l) /\ nlines' = nlines + 1
    /\ status' = "finished"
    /\ printed' = Printed("Exiting CLI...", <<>>)
    /\ UNCHANGED << progVars, prompt, called, result, typed, probe, dynVars, lockVars >>

\* A loop that looks the first token up in the dynamic registry and calls
\* what it finds there, and takes any other line for an unknown command.
ReadCommand_overlay(l) ==
    /\ AtReadline
    /\ l.raw \notin {"", "exit cli"}
    /\ IF l.toks # <<>> /\ l.toks[1] \in DOMAIN DYNAMIC_COMMANDS
       THEN /\ called' = Some([cmd |-> l.toks[1], args |-> Tail(l.toks)])
            /\ result' = "ok"
            /\ printed' = Silent
       ELSE /\ called' = None
            /\ result' = "none"
            /\ printed' = Printed("Ambiguous command or command not available in current mode: ",
                                  l.toks)
    /\ pc' = "loop" /\ input' = Some(l) /\ nlines' = nlines + 1 /\ typed' = <<>>
    /\ UNCHANGED << progVars, status, prompt, probe, dynVars, lockVars >>

\* readline returned any other line: execute_command, then the completer
\* takes the mode over, unless the callback panicked or left the process.
ReadCommand(l) ==
    /\ AtReadline
    /\ l.raw \notin {"", "exit cli"}
    /\ \E env \in EnvsFor(l) :
          \E o \in {execute_command(l, St, env)} : \E S \in {o.r.s} :
              /\ context' = S.context
              /\ clock' = S.clock
              /\ IFCONFIG_STATE' = S.IFCONFIG_STATE
              /\ STATUS_MAP' = S.STATUS_MAP
              /\ IP_ADDRESS_STATE' = S.IP_ADDRESS_STATE
              /\ ROUTE_TABLE' = S.ROUTE_TABLE
              /\ OSPF_CONFIG' = S.OSPF_CONFIG
              /\ ACL_STORE' = S.ACL_STORE
              /\ PASSWORD_STORAGE' = S.PASSWORD_STORAGE
              /\ files' = S.files
              /\ called' = o.called
              /\ result' = IF is_some(o.called) THEN o.r.res ELSE "none"
              /\ printed' = o.out
              /\ typed' = SubSeq(env.stdin, 1, o.r.reads)
              /\ status' = CASE o.r.res = "panic" -> "panicked"
                             [] o.r.res = "exit" -> "exited"
                             [] OTHER -> "running"
              /\ helper_mode' = IF o.r.res \in {"panic", "exit"} THEN helper_mode
                                ELSE S.context.current_mode
    /\ pc' = "loop" /\ input' = Some(l) /\ nlines' = nlines + 1
    /\ UNCHANGED << prompt, probe, dynVars, lockVars >>

\* readline was interrupted (Ctrl+C): a notice, and the loop continues.
Interrupted ==
    /\ pc = "readline" /\ status = "running"
    /\ pc' = "loop"
    /\ printed' = Printed("Ctrl+C pressed, but waiting for 'exit cli' command to exit...", <<>>)
    /\ UNCHANGED << progVars, status, prompt, input, called, result, typed, nlines, probe, dynVars, lockVars >>

\* readline failed otherwise (end of input): the loop is left.
ReadError ==
    /\ pc = "readline" /\ status = "running"
    /\ pc' = "loop" /\ status' = "finished"
    /\ printed' = Printed("Error: ", <<"readline">>)
    /\ UNCHANGED << progVars, prompt, input, called, result, typed, nlines, probe, dynVars, lockVars >>

Next ==
    \/ Prompt
    \/ \E l \in Lines : ReadEmpty(l)
    \/ \E l \in Lines : ReadExitCli(l)
    \/ \E l \in Lines : ReadCommand(l)
    \/ Interrupted
    \/ ReadError

Spec == Init /\ [][Next]_vars

----------------------------------------------------------------------------
\* The matcher on its own: find_unique_command and find_unique_subcommand
\* applied to a typed prefix and a candidate list, and the full name of a
\* command resolved against what get_mode_commands lets through in a mode.

\* The typed prefixes and the candidates the lists are drawn from.
PrefixPool == {"", "e", "en", "enable", "exit", "s", "xyz"}

CandidatePool == {"enable", "exit", "en", "show"}

\* The candidate lists have at most this many entries.
MaxCands == 3

CandidateLists == UNION { [1..n -> CandidatePool] : n \in 0..MaxCands }

\* One mode of each shape, the ACL modes on the lists the input lines name.
Modes ==
    { UserMode, PrivilegedMode, ConfigMode, InterfaceMode, VlanMode, RouterConfigMode,
      ConfigStdNaclMode("10"), ConfigExtNaclMode("101"), CryptoUserMode }

\* Every name an arm of get_mode_commands or the registry mentions.
CommandNames == SeqRange(RegistryKeys) \cup UNION { ModeAllowList(t) : t \in ModeTags }

Probes ==
    [ kind : {"command", "subcommand"}, partial : PrefixPool, candidates : CandidateLists,
      mode : {UserMode}, by : {"none"}, answer : {None} ]
    \cup
    [ kind : {"mode"}, partial : CommandNames, candidates : {<<>>},
      mode : Modes, by : {"none"}, answer : {None} ]

InitResolve == InitProgram /\ probe \in Probes

ResolveCommand ==
    /\ probe.kind = "command" /\ probe.by = "none"
    /\ probe' = [probe EXCEPT !.by = "find_unique_command",
                              !.answer = Some(find_unique_command(probe.partial,
                                                                  probe.candidates))]
    /\ UNCHANGED << progVars, replVars, dynVars, lockVars >>

ResolveSubcommand ==
    /\ probe.kind = "subcommand" /\ probe.by = "none"
    /\ probe' = [probe EXCEPT !.by = "find_unique_subcommand",
                              !.answer = Some(find_unique_subcommand(probe.partial,
                                                                     probe.candidates))]
    /\ UNCHANGED << progVars, replVars, dynVars, lockVars >>

\* The first step of the exec path: the mode filter, then the matcher.
ResolveInMode ==
    /\ probe.kind = "mode" /\ probe.by = "none"
    /\ probe' = [probe EXCEPT !.by = "get_mode_commands",
                              !.answer = Some(find_unique_command(probe.partial,
                                             get_mode_commands(RegistryKeys, probe.mode)))]
    /\ UNCHANGED << progVars, replVars, dynVars, lockVars >>

NextResolve == ResolveCommand \/ ResolveSubcommand \/ ResolveInMode

SpecResolve == InitResolve /\ [][NextResolve]_vars

----------------------------------------------------------------------------
\* Properties

\* A line was read and handled: the step from readline back to the loop.
LineStep == pc = "readline" /\ pc' = "loop" /\ nlines' = nlines + 1

\* The line the step handled went to execute_command.
Dispatched == LineStep /\ unwrap(input').raw \notin {"", "exit cli"}

\* The commands of the current mode that start with the token.
Starting(tok) ==
    { c \in SeqRange(get_mode_commands(RegistryKeys, context.current_mode)) :
        starts_with(c, tok) }

\* Neither the context, nor the clock, nor a store, nor a file changes.
Untouched == UNCHANGED << context, clock, stores, files >>

\* C1: a line without a trailing '?' whose first token starts none or
\* several of the commands of the current mode calls no callback, leaves the
\* context and every store as they were, and the loop goes on to the next
\* line.
C1_NoMatchNoCallback ==
    [][ (Dispatched /\ ~unwrap(input').q
            /\ Cardinality(Starting(unwrap(input').toks[1])) # 1)
        => (called' = None /\ Untouched /\ status' = "running") ]_vars

\* A first token that starts two commands of the mode (e: enable, exit).
C1_Witness ==
    /\ pc = "loop" /\ is_some(input) /\ unwrap(input).raw = "e"
    /\ context.current_mode = UserMode
    /\ is_none(called)
    /\ printed = Printed("Ambiguous command or command not available in current mode: ", <<"e">>)

\* C2: find_unique_command and find_unique_subcommand answer with a
\* candidate exactly when it is the only entry of the list that starts with
\* the prefix, with no match when no entry or several entries start with it,
\* and with the same answer for every ordering of the list.
C2_UniquePrefix ==
    probe.by \in {"find_unique_command", "find_unique_subcommand"} =>
        LET cands == probe.candidates
            hits == { i \in DOMAIN cands : starts_with(cands[i], probe.partial) }
            got == unwrap(probe.answer)
            Again(q) == IF probe.by = "find_unique_command"
                        THEN find_unique_command(probe.partial, q)
                        ELSE find_unique_subcommand(probe.partial, q)
        IN  /\ \A c \in CandidatePool :
                  (got = Some(c)) <=> (\E i \in hits : hits = {i} /\ cands[i] = c)
            /\ (got = None) <=> (Cardinality(hits) # 1)
            /\ \A p \in Permutations(DOMAIN cands) :
                  Again([i \in DOMAIN cands |-> cands[p[i]]]) = got

\* The one entry starting with "en" is found among three.
C2_Witness ==
    /\ probe.by = "find_unique_command"
    /\ probe.partial = "en"
    /\ probe.candidates = <<"exit", "enable", "show">>
    /\ probe.answer = Some(Some("enable"))

\* C3: the full name of a command resolves in a mode to itself exactly when
\* the mode's allow-list holds it, and to no match otherwise.
C3_AllowListResolves ==
    probe.by = "get_mode_commands" =>
        /\ (unwrap(probe.answer) = Some(probe.partial))
              <=> (probe.partial \in ModeAllowList(probe.mode.tag))
        /\ (probe.partial \notin ModeAllowList(probe.mode.tag))
              => (unwrap(probe.answer) = None)

\* The command the first token of the line resolves to in the current mode.
Resolved(l) == CHOOSE c \in Starting(l.toks[1]) : TRUE

\* The entries of the list q starting with the token, by position.
Hits(q, tok) == { i \in DOMAIN q : starts_with(q[i], tok) }

\* The callback of cmd was called with args.
CalledWith(cmd, args) == called' = Some([cmd |-> cmd, args |-> args])

C5_HelpIsReadOnly ==
    [][ (Dispatched /\ unwrap(input').q) => (called' = None /\ Untouched) ]_vars

\* `enable ?` in User EXEC mode: a notice, no callback, still User EXEC mode.
C5_Witness ==
    /\ pc = "loop" /\ is_some(input) /\ unwrap(input).raw = "enable ?"
    /\ is_none(called)
    /\ context.current_mode = UserMode
    /\ printed = Printed("No subcommands or more options available", <<>>)

\* C6: a callback that returns a failure leaves the mode and the prompt as
\* they were.
C6_FailureKeepsMode ==
    [][ (Dispatched /\ result' = "err")
        => (context'.current_mode = context.current_mode
            /\ context'.prompt = context.prompt) ]_vars

\* `configure terminal now` fails in Privileged EXEC mode, which stays.
C6_Witness ==
    /\ pc = "loop" /\ result = "err"
    /\ is_some(called) /\ unwrap(called).cmd = "configure"
    /\ unwrap(called).args = <<"terminal", "now">>
    /\ context.current_mode = PrivilegedMode
    /\ context.prompt = <<"SEM", "#">>

\* C7: a step on a non-empty line other than `exit cli` and `exit ssh` ends
\* with the process running and ready for the next line, with no panic and
\* no process exit.
C7_NoPanicNoExit ==
    [][ (Dispatched /\ unwrap(input').raw # "exit ssh") => status' = "running" ]_vars

\* C8: a callback that returns a failure leaves the context and every store
\* as they were before the call.
C8_ValidateBeforeMutate ==
    [][ (Dispatched /\ result' = "err") => UNCHANGED << context, stores >> ]_vars

C10_InterfaceAnyName ==
    [][ (Dispatched /\ ~unwrap(input').q
            /\ context.current_mode = ConfigMode
            /\ Len(unwrap(input').toks) = 2
            /\ unwrap(input').toks[2] # "range"
            /\ Starting(unwrap(input').toks[1]) = {"interface"})
        => (context'.current_mode = InterfaceMode
            /\ context'.selected_interface = Some(unwrap(input').toks[2])
            /\ context'.prompt = << context.config.hostname, "(config-if)#" >>) ]_vars

----------------------------------------------------------------------------
\* execute_command on a context of any shape. execute_command and the
\* callbacks of the registry are public functions of a context they are
\* handed; main is one caller, and main never builds every CliContext there
\* is (it never has InterfaceMode without a selected interface). Here the
\* loop starts on a drawn context and reads one line.

\* The interfaces a context may have selected, and the addresses they have.
SelectedInterfaces == {None, Some("g0/0")}

AddressStates ==
    { EmptyMap,
      ("g0/0" :> << unwrap(Ipv4Addr_from_str("10.0.0.1")),
                    calculate_broadcast(unwrap(Ipv4Addr_from_str("10.0.0.1")), 24) >>) }

\* What a client may have put into the dynamic registry before the loop:
\* nothing, the hello of register_custom_commands, or a command under the
\* name of a command of the static registry.
DynamicRegistries ==
    { [commands |-> EmptyMap, permissions |-> EmptyMap],
      [commands |-> ("hello" :> [name |-> "hello"]),
       permissions |-> ("hello" :> <<UserMode, PrivilegedMode, ConfigMode>>)],
      [commands |-> ("shutdown" :> [name |-> "shutdown"]),
       permissions |-> ("shutdown" :> <<UserMode>>)] }

InitAny ==
    /\ context \in { [InitialContext EXCEPT !.current_mode = m, !.selected_interface = i] :
                        m \in Modes, i \in SelectedInterfaces }
    /\ clock = Some(Clock_new)
    /\ IFCONFIG_STATE =
          ("ens33" :> << unwrap(Ipv4Addr_from_str("192.168.253.135")),
                         calculate_broadcast(unwrap(Ipv4Addr_from_str("192.168.253.135")), 24) >>)
    /\ STATUS_MAP \in { ("ens33" :> FALSE), ("g0/0" :> TRUE) @@ ("ens33" :> FALSE) }
    /\ IP_ADDRESS_STATE \in AddressStates
    /\ ROUTE_TABLE = EmptyMap
    /\ OSPF_CONFIG = OSPFConfig_new
    /\ ACL_STORE = EmptyMap
    /\ PASSWORD_STORAGE = [enable_password |-> None, enable_secret |-> None]
    /\ files = EmptyMap
    /\ \E registry \in DynamicRegistries :
          /\ DYNAMIC_COMMANDS = registry.commands
          /\ MODE_PERMISSIONS = registry.permissions
    /\ walk = NoWalk
    /\ command_context = CommandContext_new
    /\ held = {}
    /\ run = NoRun
    /\ helper_mode = context.current_mode
    /\ pc = "loop"
    /\ status = "running"
    /\ prompt = <<>>
    /\ input = None
    /\ called = None
    /\ result = "none"
    /\ printed = Silent
    /\ typed = <<>>
    /\ nlines = MaxLines - 1
    /\ probe = NoProbe

SpecAny == InitAny /\ [][Next]_vars

----------------------------------------------------------------------------
\* The mode hierarchy of walkup.rs and the dynamic registry of
\* dynamic_registry.rs. main declares both modules and calls neither; their
\* functions are public, and are modelled as calls a client makes:
\* register_command, walkup_find_command (one step per turn of its loop) and
\* get_commands_for_mode.

\* HashMap::get
Lookup(map, key) == IF key \in DOMAIN map THEN Some(map[key]) ELSE None

\* A hierarchy with one more level above User mode.
ModeHierarchy_deeper ==
    (UserMode :> Some(CryptoUserMode)) @@
    (PrivilegedMode :> Some(UserMode)) @@
    (ConfigMode :> Some(PrivilegedMode)) @@
    (InterfaceMode :> Some(ConfigMode))

\* ModeHierarchy::new: the parent_map
ModeHierarchy_new ==
    (UserMode :> None) @@
    (PrivilegedMode :> Some(UserMode)) @@
    (ConfigMode :> Some(PrivilegedMode)) @@
    (InterfaceMode :> Some(ConfigMode)) @@
    (VlanMode :> Some(ConfigMode)) @@
    (RouterConfigMode :> Some(ConfigMode)) @@
    (ConfigStdNaclMode("default") :> Some(ConfigMode)) @@
    (ConfigExtNaclMode("default") :> Some(ConfigMode))

\* ModeHierarchy::is_command_allowed_in_mode
is_command_allowed_in_mode(command, mode) ==
    CASE mode.tag = "UserMode" ->
            command \in {"enable", "ping", "help", "show", "clear", "reload", "exit"}
      [] mode.tag = "PrivilegedMode" ->
            command \in {"configure", "ping", "exit", "write", "help", "show", "copy", "clock",
                         "clear", "reload", "debug", "undebug", "ifconfig"}
      [] mode.tag = "ConfigMode" ->
            command \in {"hostname", "interface", "ping", "exit", "clear", "tunnel",
                         "access-list", "router", "virtual-template", "help", "write", "vlan",
                         "ip", "service", "set", "enable", "ifconfig", "ntp", "no", "reload",
                         "crypto"}
      [] mode.tag = "InterfaceMode" ->
            command \in {"shutdown", "no", "exit", "clear", "help", "switchport", "write",
                         "reload", "ip"}
      [] mode.tag = "VlanMode" ->
            command \in {"name", "state", "clear", "exit", "help", "reload", "vlan"}
      [] mode.tag = "CryptoUserMode" -> command = "exit"
      [] mode.tag = "RouterConfigMode" ->
            command \in {"network", "neighbor", "exit", "clear", "area", "passive-interface",
                         "distance", "help", "reload", "default-information", "router-id"}
      [] mode.tag \in {"ConfigStdNaclMode", "ConfigExtNaclMode"} ->
            command \in {"deny", "permit", "help", "exit", "clear", "reload", "ip"}

\* get_mode_commands_FNC: the commands whose permissions name the mode
\* (a Vec in the order of the HashMap; only membership is used)
get_mode_commands_FNC(commands, mode) ==
    { cmd_name \in DOMAIN commands :
        /\ is_some(Lookup(MODE_PERMISSIONS, cmd_name))
        /\ Contains(unwrap(Lookup(MODE_PERMISSIONS, cmd_name)), mode) }

\* A visibility that takes the allowed modes as they are listed, with no
\* inheritance.
get_commands_for_mode_listed(mode, iteration) ==
    LET Allowed(command_name) ==
            /\ Contains(MODE_PERMISSIONS[command_name], mode)
            /\ command_name \in DOMAIN DYNAMIC_COMMANDS
    IN  SelectSeq(iteration, Allowed)

\* get_commands_for_mode, the permissions iterated in the order iteration
get_commands_for_mode(mode, iteration) ==
    LET Allowed(command_name) ==
            LET allowed_modes == MODE_PERMISSIONS[command_name]
            IN  /\ \/ Contains(allowed_modes, mode)
                   \/ (mode = PrivilegedMode /\ Contains(allowed_modes, UserMode))
                   \/ (mode = ConfigMode /\ (Contains(allowed_modes, UserMode)
                                             \/ Contains(allowed_modes, PrivilegedMode)))
                   \/ (mode = InterfaceMode /\ (Contains(allowed_modes, UserMode)
                                                \/ Contains(allowed_modes, PrivilegedMode)
                                                \/ Contains(allowed_modes, ConfigMode)))
                /\ command_name \in DOMAIN DYNAMIC_COMMANDS
    IN  SelectSeq(iteration, Allowed)

\* The names a client registers, and the modes it registers them for.
DynamicNames == {"hello", "enable"}

AllowedModes ==
    { None, Some(<<>>), Some(<<UserMode>>), Some(<<ConfigMode>>), Some(<<RouterConfigMode>>),
      Some(<<UserMode, PrivilegedMode, ConfigMode>>) }

\* The modes and the commands the functions are asked about.
WalkModes == Modes \cup {ConfigStdNaclMode("default"), ConfigExtNaclMode("default")}

WalkCommands == {"enable", "hostname", "shutdown", "deny", "exit", "hello", "xyz"}

\* register_command
RegisterCommand(name, allowed_modes) ==
    /\ walk.pc # "loop"
    /\ DYNAMIC_COMMANDS' = Insert(DYNAMIC_COMMANDS, name, [name |-> name])
    /\ MODE_PERMISSIONS' = IF is_some(allowed_modes)
                           THEN Insert(MODE_PERMISSIONS, name, unwrap(allowed_modes))
                           ELSE MODE_PERMISSIONS
    /\ probe' = NoProbe
    /\ UNCHANGED << progVars, replVars, walk, command_context, lockVars >>

\* walkup_find_command is called.
WalkupCall(initial_mode, command) ==
    /\ walk.pc # "loop"
    /\ walk' = [pc |-> "loop", initial_mode |-> initial_mode, command |-> command,
                current_mode |-> initial_mode, examined |-> 0, found |-> None]
    /\ probe' = NoProbe
    /\ UNCHANGED << progVars, replVars, DYNAMIC_COMMANDS, MODE_PERMISSIONS, command_context, lockVars >>

\* One turn of the loop of walkup_find_command.
WalkupIterate ==
    /\ walk.pc = "loop"
    /\ walk' =
          IF \/ is_command_allowed_in_mode(walk.command, walk.current_mode)
             \/ walk.command \in get_mode_commands_FNC(DYNAMIC_COMMANDS, walk.current_mode)
          THEN [walk EXCEPT !.pc = "done", !.examined = @ + 1, !.found = Some(walk.current_mode)]
          ELSE IF is_none(Lookup(ModeHierarchy_new, walk.current_mode))
          THEN [walk EXCEPT !.pc = "done", !.examined = @ + 1, !.found = None]
          ELSE IF is_none(unwrap(Lookup(ModeHierarchy_new, walk.current_mode)))
          THEN [walk EXCEPT !.pc = "done", !.examined = @ + 1, !.found = None]
          ELSE [walk EXCEPT !.examined = @ + 1,
                            !.current_mode =
                                unwrap(unwrap(Lookup(ModeHierarchy_new, walk.current_mode)))]
    /\ UNCHANGED << progVars, replVars, probe, DYNAMIC_COMMANDS, MODE_PERMISSIONS, command_context, lockVars >>

\* get_commands_for_mode is called; the HashMap yields its keys in some order.
CommandsForMode(mode) ==
    /\ walk.pc # "loop"
    /\ \E iteration \in [1..Cardinality(DOMAIN MODE_PERMISSIONS) -> DOMAIN MODE_PERMISSIONS] :
          /\ \A i, j \in DOMAIN iteration : i # j => iteration[i] # iteration[j]
          /\ probe' = [kind |-> "dynamic", partial |-> "", candidates |-> iteration,
                       mode |-> mode, by |-> "get_commands_for_mode",
                       answer |-> Some(get_commands_for_mode(mode, iteration))]
    /\ walk' = NoWalk
    /\ UNCHANGED << progVars, replVars, DYNAMIC_COMMANDS, MODE_PERMISSIONS, command_context, lockVars >>

InitWalkup == InitProgram /\ probe = NoProbe

NextWalkup ==
    \/ \E name \in DynamicNames, allowed_modes \in AllowedModes :
          RegisterCommand(name, allowed_modes)
    \/ \E initial_mode \in WalkModes, command \in WalkCommands :
          WalkupCall(initial_mode, command)
    \/ WalkupIterate
    \/ \E mode \in WalkModes : CommandsForMode(mode)

SpecWalkup == InitWalkup /\ [][NextWalkup]_vars

\* C11: in Interface mode with no interface selected, shutdown returns the
\* failure "No interface selected. ...", the mode stays Interface mode and
\* the interface status map is what it was.
C11_ShutdownNoInterface ==
    [][ (Dispatched
            /\ context.current_mode = InterfaceMode
            /\ is_none(context.selected_interface)
            /\ is_some(called') /\ unwrap(called').cmd = "shutdown")
        => (/\ result' = "err"
            /\ printed' = Printed("Error: ",
                    <<"No interface selected. Use the 'interface' command first.">>)
            /\ context'.current_mode = InterfaceMode
            /\ STATUS_MAP' = STATUS_MAP) ]_vars

\* shutdown was typed in Interface mode with nothing selected, and failed.
C11_Witness ==
    /\ pc = "loop" /\ is_some(input) /\ unwrap(input).raw = "shutdown"
    /\ called = Some([cmd |-> "shutdown", args |-> <<>>])
    /\ result = "err"
    /\ context.current_mode = InterfaceMode
    /\ is_none(context.selected_interface)
    /\ "g0/0" \in DOMAIN STATUS_MAP

\* The help of one token that is the name of a visible command.
HelpOfCommand(c) ==
    IF is_some(suggestions1[c]) THEN Printed("Possible completions:", unwrap(suggestions1[c]))
    ELSE IF is_some(options[c]) THEN Printed("Possible completions:", unwrap(options[c]))
    ELSE Printed("No subcommands or more options available", <<>>)

\* C12: help with one token before the '?'. A token that is the name of a
\* command of the current mode shows the subcommands (suggestions1) of the
\* command as declared, or its options when it has no subcommands, or the
\* notice that there is nothing more; a token that is no such name and
\* starts commands of the mode shows exactly those commands, each once.
C12_HelpOneToken ==
    [][ (Dispatched /\ unwrap(input').q /\ Len(unwrap(input').toks) = 1)
        => LET t == unwrap(input').toks[1]
               visible == SeqRange(get_mode_commands(RegistryKeys, context.current_mode))
           IN  IF t \in visible THEN printed' = HelpOfCommand(t)
               ELSE Starting(t) # {}
                    => (/\ printed'.text = "Possible completions for"
                        /\ SeqRange(printed'.list) = Starting(t)
                        /\ Len(printed'.list) = Cardinality(Starting(t))) ]_vars

\* `copy ?` in Privileged mode showed the subcommand of copy, not its option.
C12_Witness ==
    /\ pc = "loop" /\ is_some(input) /\ unwrap(input).raw = "copy ?"
    /\ context.current_mode = PrivilegedMode
    /\ printed = Printed("Possible completions:", <<"running-config">>)

\* `s?` in Privileged mode listed show and no other command.
C12_WitnessPrefix ==
    /\ pc = "loop" /\ is_some(input) /\ unwrap(input).raw = "s?"
    /\ context.current_mode = PrivilegedMode
    /\ printed = Printed("Possible completions for", <<"show">>)

\* C13: help with two tokens and no blank before the '?', the first the
\* name of a command of the current mode that has subcommands: the output
\* is the subcommands that start with the second token, in declared order,
\* or the notice that none matches.
C13_HelpPartialSubcommand ==
    [][ (Dispatched /\ unwrap(input').q /\ Len(unwrap(input').toks) = 2
            /\ ~unwrap(input').sp
            /\ Contains(get_mode_commands(RegistryKeys, context.current_mode),
                        unwrap(input').toks[1])
            /\ is_some(suggestions1[unwrap(input').toks[1]]))
        => LET StartsPartial(s) == starts_with(s, unwrap(input').toks[2])
               matching == SelectSeq(unwrap(suggestions1[unwrap(input').toks[1]]),
                                     StartsPartial)
           IN  printed' = IF matching # <<>> THEN Printed("Possible completions:", matching)
                          ELSE Printed("No matching commands found", <<>>) ]_vars

\* `ntp a?` in Global Configuration mode showed the two subcommands of ntp
\* that start with a, in the order of their declaration.
C13_Witness ==
    /\ pc = "loop" /\ is_some(input) /\ unwrap(input).raw = "ntp a?"
    /\ context.current_mode = ConfigMode
    /\ printed = Printed("Possible completions:", <<"authenticate", "authentication-key">>)

\* `configure x?` in Privileged mode: no subcommand of configure starts with x.
C13_WitnessNone ==
    /\ pc = "loop" /\ is_some(input) /\ unwrap(input).raw = "configure x?"
    /\ context.current_mode = PrivilegedMode
    /\ printed = Printed("No matching commands found", <<>>)

\* The text of an operand of ip route as an entry keeps it: an address in
\* its canonical spelling, any other text as typed.
RouteOperand(x) ==
    IF is_some(Ipv4Addr_from_str(x)) THEN Ipv4Addr_to_string(unwrap(Ipv4Addr_from_str(x)))
    ELSE x

\* What the entry of a route may name as its way out: the one operand after
\* the netmask, or, of an exit interface and a next hop, either or both.
RouteGateways(args) ==
    IF Len(args) = 4 THEN { RouteOperand(args[4]) }
    ELSE { RouteOperand(args[5]), args[4],
           Str(Spell[args[4]] \o <<" ">> \o Spell[RouteOperand(args[5])]) }

\* C14: a successful ip route in Global Configuration mode leaves one entry
\* for its destination, with the netmask and the next hop (or the exit
\* interface) of this command, and every other entry as it was: the table
\* has one entry per destination, that of the latest route given for it.
C14_RouteLatestWins ==
    [][ (Dispatched /\ context.current_mode = ConfigMode
            /\ is_some(called') /\ unwrap(called').cmd = "ip"
            /\ Len(unwrap(called').args) \in {4, 5}
            /\ unwrap(called').args[1] = "route"
            /\ result' = "ok")
        => LET args == unwrap(called').args
               destination == RouteOperand(args[2])
           IN  /\ DOMAIN ROUTE_TABLE' = DOMAIN ROUTE_TABLE \cup {destination}
               /\ \A d \in DOMAIN ROUTE_TABLE \ {destination} : ROUTE_TABLE'[d] = ROUTE_TABLE[d]
               /\ ROUTE_TABLE'[destination][1] = unwrap(Ipv4Addr_from_str(args[3]))
               /\ ROUTE_TABLE'[destination][2] \in RouteGateways(args) ]_vars

\* The same for the routes of one operand after the netmask.
C14_RouteLatestWinsThreeOperands ==
    [][ (Dispatched /\ context.current_mode = ConfigMode
            /\ is_some(called') /\ unwrap(called').cmd = "ip"
            /\ Len(unwrap(called').args) = 4
            /\ unwrap(called').args[1] = "route"
            /\ result' = "ok")
        => LET args == unwrap(called').args
               destination == RouteOperand(args[2])
           IN  /\ DOMAIN ROUTE_TABLE' = DOMAIN ROUTE_TABLE \cup {destination}
               /\ \A d \in DOMAIN ROUTE_TABLE \ {destination} : ROUTE_TABLE'[d] = ROUTE_TABLE[d]
               /\ ROUTE_TABLE'[destination] =
                      << unwrap(Ipv4Addr_from_str(args[3])), RouteOperand(args[4]) >> ]_vars

\* The route to 10.0.0.0 by eth0 was given, then the route to 10.0.0.0 by
\* 192.168.1.1: the table has the one entry, of the second.
C14_Overwritten ==
    /\ pc = "loop" /\ nlines = 4 /\ is_some(input)
    /\ unwrap(input).raw = "ip route 10.0.0.0 255.255.255.0 192.168.1.1"
    /\ DOMAIN ROUTE_TABLE = {"10.0.0.0"}
    /\ ROUTE_TABLE["10.0.0.0"][2] = "192.168.1.1"

C15_WitnessInterrupt ==
    /\ pc = "loop" /\ status = "running"
    /\ context.current_mode = ConfigMode
    /\ printed = Printed("Ctrl+C pressed, but waiting for 'exit cli' command to exit...", <<>>)

\* C16: the parent map is total: whatever mode walkup_find_command is
\* looking at, an ACL mode of any list included, the map has an entry for
\* it, and the entry is no parent for User mode only.
C16_ParentTotal ==
    walk.pc = "loop"
    => /\ is_some(Lookup(ModeHierarchy_new, walk.current_mode))
       /\ is_none(unwrap(Lookup(ModeHierarchy_new, walk.current_mode)))
             <=> walk.current_mode = UserMode

\* The same for the modes the map has an entry for.
C16_ParentOfListedModes ==
    (walk.pc = "loop" /\ is_some(Lookup(ModeHierarchy_new, walk.current_mode)))
    => (is_none(unwrap(Lookup(ModeHierarchy_new, walk.current_mode)))
           <=> walk.current_mode = UserMode)

\* The modes from mode upwards, as far as the parent map leads.
RECURSIVE Chain(_)
Chain(mode) ==
    IF is_none(Lookup(ModeHierarchy_new, mode)) THEN <<mode>>
    ELSE IF is_none(unwrap(Lookup(ModeHierarchy_new, mode))) THEN <<mode>>
    ELSE <<mode>> \o Chain(unwrap(unwrap(Lookup(ModeHierarchy_new, mode))))

\* command is allowed in mode by the static table, or registered for it.
Legal(command, mode) ==
    \/ is_command_allowed_in_mode(command, mode)
    \/ command \in get_mode_commands_FNC(DYNAMIC_COMMANDS, mode)

\* The first mode of the chain the command is legal in, if there is one.
FirstLegal(chain, command) ==
    IF \E i \in DOMAIN chain : Legal(command, chain[i])
    THEN Some(chain[CHOOSE i \in DOMAIN chain :
                        /\ Legal(command, chain[i])
                        /\ \A j \in 1..(i - 1) : ~Legal(command, chain[j])])
    ELSE None

\* A call of walkup_find_command returns.
WalkupReturns == walk.pc = "loop" /\ walk'.pc = "done"

\* C17: walkup_find_command(mode, c) walks the chain of mode up to and
\* including User mode and returns the first mode of it in which c is
\* legal, none exactly when c is legal in no mode of the chain.
C17_WalkupFirstLegal ==
    [][ WalkupReturns
        => /\ Chain(walk.initial_mode)[Len(Chain(walk.initial_mode))] = UserMode
           /\ walk'.found = FirstLegal(Chain(walk.initial_mode), walk.command) ]_vars

\* The same for the chain as far as the parent map leads, wherever it ends.
C17_WalkupFirstLegalOfMap ==
    [][ WalkupReturns
        => walk'.found = FirstLegal(Chain(walk.initial_mode), walk.command) ]_vars

\* hello, registered for Global Configuration mode, was looked for from
\* Interface mode and found in Global Configuration mode.
C17_WalkedUp ==
    /\ walk.pc = "done" /\ walk.initial_mode = InterfaceMode /\ walk.command = "hello"
    /\ walk.found = Some(ConfigMode) /\ walk.examined = 2

\* A call of walkup_find_command goes on until it returns.
SpecWalkupFair == SpecWalkup /\ WF_vars(WalkupIterate)

\* C18: walkup_find_command returns for every start mode and every command,
\* after it has examined at most 4 modes.
C18_WalkupTerminates ==
    /\ [](walk.examined <= 4)
    /\ (walk.pc = "loop") ~> (walk.pc = "done" /\ walk.examined \in 1..4)

\* xyz was looked for from Interface mode: four modes examined, none found.
C18_Witness ==
    /\ walk.pc = "done" /\ walk.initial_mode = InterfaceMode /\ walk.command = "xyz"
    /\ walk.examined = 4 /\ walk.found = None

\* The mode itself or a mode above it is in the list of allowed modes.
AllowedOnChain(allowed_modes, mode) ==
    \E i \in DOMAIN Chain(mode) : Contains(allowed_modes, Chain(mode)[i])

\* C19: a dynamic command registered with a list of allowed modes is among
\* the commands get_commands_for_mode gives for a mode exactly when the mode
\* or a mode above it in the hierarchy is in the list.
C19_VisibleByInheritance ==
    probe.by = "get_commands_for_mode"
    => \A c \in DOMAIN DYNAMIC_COMMANDS \cap DOMAIN MODE_PERMISSIONS :
          Contains(unwrap(probe.answer), c) <=> AllowedOnChain(MODE_PERMISSIONS[c], probe.mode)

\* The same for User, Privileged, Global Configuration and Interface mode,
\* the modes get_commands_for_mode has inheritance for.
C19_VisibleByInheritanceUpToInterface ==
    (probe.by = "get_commands_for_mode"
        /\ probe.mode \in {UserMode, PrivilegedMode, ConfigMode, InterfaceMode})
    => \A c \in DOMAIN DYNAMIC_COMMANDS \cap DOMAIN MODE_PERMISSIONS :
          Contains(unwrap(probe.answer), c) <=> AllowedOnChain(MODE_PERMISSIONS[c], probe.mode)

\* hello, registered for User mode, is visible in Interface mode.
C19_Inherited ==
    /\ probe.by = "get_commands_for_mode" /\ probe.mode = InterfaceMode
    /\ "hello" \in DOMAIN DYNAMIC_COMMANDS
    /\ Lookup(MODE_PERMISSIONS, "hello") = Some(<<UserMode>>)
    /\ Contains(unwrap(probe.answer), "hello")

\* C20: the dispatcher does not depend on the dynamic registry. Whatever
\* the registry and its permissions hold, a line is handled as
\* execute_command handles it on the context and the stores alone: the same
\* callback with the same arguments, the same context, the same output; the
\* callback is one of the static registry, the help lists commands of the
\* static registry only, and the registry itself is left as it was.
C20_DispatcherIgnoresDynamicRegistry ==
    [][ Dispatched
        => /\ \E env \in EnvsFor(unwrap(input')) :
                 \E o \in {execute_command(unwrap(input'), St, env)} :
                     /\ called' = o.called
                     /\ context' = o.r.s.context
                     /\ printed' = o.out
           /\ is_some(called') => unwrap(called').cmd \in SeqRange(RegistryKeys)
           /\ printed'.text = "Possible completions for"
                 => SeqRange(printed'.list) \subseteq SeqRange(RegistryKeys)
           /\ UNCHANGED << DYNAMIC_COMMANDS, MODE_PERMISSIONS >> ]_vars

\* hello is registered for User mode, `hello world` was typed in User mode:
\* no callback was called and the line was refused.
C20_Witness ==
    /\ pc = "loop" /\ is_some(input) /\ unwrap(input).raw = "hello world"
    /\ context.current_mode = UserMode
    /\ "hello" \in DOMAIN DYNAMIC_COMMANDS
    /\ Contains(MODE_PERMISSIONS["hello"], UserMode)
    /\ called = None
    /\ printed = Printed("Ambiguous command or command not available in current mode: ",
                         <<"hello">>)

\* shutdown is registered for User mode as a dynamic command: in User mode
\* `shutdown` is still no command.
C20_WitnessSameName ==
    /\ pc = "loop" /\ is_some(input) /\ unwrap(input).raw = "shutdown"
    /\ context.current_mode = UserMode
    /\ "shutdown" \in DOMAIN DYNAMIC_COMMANDS
    /\ called = None

\* The command an entry of the help listing is about: its first word.
TopLevel(entry) == Str(split_whitespace(Spell[entry])[1])

\* C21: the listing a bare '?' prints in a mode names exactly the commands
\* the dispatcher resolves in that mode: every listed command is a command
\* of the mode, and every command of the mode is listed.
C21_HelpListingInSync ==
    [][ (Dispatched /\ unwrap(input').q /\ unwrap(input').toks = <<>>)
        => { TopLevel(printed'.list[i]) : i \in DOMAIN printed'.list }
              = SeqRange(get_mode_commands(RegistryKeys, context.current_mode)) ]_vars

\* The same for User mode and Privileged mode.
C21_HelpListingInSyncBelowConfig ==
    [][ (Dispatched /\ unwrap(input').q /\ unwrap(input').toks = <<>>
            /\ context.current_mode \in {UserMode, PrivilegedMode})
        => { TopLevel(printed'.list[i]) : i \in DOMAIN printed'.list }
              = SeqRange(get_mode_commands(RegistryKeys, context.current_mode)) ]_vars

\* The prompt suffix of a mode.
SuffixOf(tag) ==
    CASE tag = "UserMode" -> ">"
      [] tag = "PrivilegedMode" -> "#"
      [] tag = "ConfigMode" -> "(config)#"
      [] tag = "InterfaceMode" -> "(config-if)#"
      [] tag = "RouterConfigMode" -> "(config-router)#"
      [] tag = "ConfigStdNaclMode" -> "(config-std-nacl)#"
      [] tag = "ConfigExtNaclMode" -> "(config-ext-nacl)#"

\* The modes that have a prompt suffix of their own.
SuffixedTags ==
    { "UserMode", "PrivilegedMode", "ConfigMode", "InterfaceMode", "RouterConfigMode",
      "ConfigStdNaclMode", "ConfigExtNaclMode" }

FieldKinds ==
    [ running_config |-> "OptString", startup_config |-> "OptString",
      hostname |-> "String", crypto_ipsec_profile |-> "OptString",
      transform_sets |-> "OptVecString", tunnel_mode |-> "OptString",
      tunnel_source |-> "OptString", tunnel_destination |-> "OptString",
      tunnel_protection_profile |-> "OptString", virtual_template |-> "OptString",
      enable_password |-> "OptString", enable_secret |-> "OptString",
      encrypted_password |-> "OptString", encrypted_secret |-> "OptString",
      password_encryption |-> "Bool", domain_name |-> "OptString",
      last_written |-> "OptString", crypto_keys |-> "MapString",
      certificates |-> "MapString", crypto_dynamic_maps |-> "MapDynamicMapEntry",
      crypto_engine_accelerator |-> "OptU32", crypto_ipsec_lifetime |-> "IPSecLifetime",
      crypto_transform_sets |-> "MapVecString", crypto_maps |-> "MapCryptoMapEntry",
      crypto_local_addresses |-> "MapString" ]

\* The text of a JSON string between its quotes: the quote and the backslash
\* are escaped (the strings of the model hold no control character).
RECURSIVE escape_str(_)
escape_str(cs) ==
    IF cs = <<>> THEN <<>>
    ELSE (IF Head(cs) \in {"\"", "\\"} THEN <<"\\", Head(cs)>> ELSE <<Head(cs)>>)
         \o escape_str(Tail(cs))

\* The characters a JSON string text stands for; None where the text holds a
\* bare quote, or a backslash that escapes neither a quote nor a backslash.
RECURSIVE parse_str(_)
parse_str(cs) ==
    IF cs = <<>> THEN Some(<<>>)
    ELSE IF Head(cs) = "\"" THEN None
    ELSE IF Head(cs) = "\\" THEN
        IF Len(cs) < 2 \/ cs[2] \notin {"\"", "\\"} THEN None
        ELSE LET rest == parse_str(SubSeq(cs, 3, Len(cs)))
             IN  IF is_none(rest) THEN None ELSE Some(<<cs[2]>> \o unwrap(rest))
    ELSE LET rest == parse_str(Tail(cs))
         IN  IF is_none(rest) THEN None ELSE Some(<<Head(cs)>> \o unwrap(rest))

JsonNull == <<"null">>

JsonString(s) == <<"string", escape_str(Spell[s])>>

JsonNumber(n) == <<"number", NatToChars(n)>>

JsonOption(o, value) == IF is_none(o) THEN JsonNull ELSE value

\* Serialize: the JSON value of a field of the kind.
to_value(kind, v) ==
    CASE kind = "String" -> JsonString(v)
      [] kind = "OptString" -> JsonOption(v, JsonString(v[1]))
      [] kind = "Bool" -> <<"bool", v>>
      [] kind = "OptU32" -> JsonOption(v, JsonNumber(v[1]))
      [] kind = "OptVecString" ->
            JsonOption(v, <<"array", [i \in DOMAIN v[1] |-> JsonString(v[1][i])]>>)
      [] kind = "MapString" -> <<"object", [k \in DOMAIN v |-> JsonString(v[k])]>>
      [] kind = "MapVecString" ->
            <<"object", [k \in DOMAIN v |->
                            <<"array", [i \in DOMAIN v[k] |-> JsonString(v[k][i])]>>]>>
      [] kind = "IPSecLifetime" ->
            <<"object", [seconds |-> JsonOption(v.seconds, JsonNumber(v.seconds[1])),
                         kilobytes |-> JsonOption(v.kilobytes, JsonNumber(v.kilobytes[1]))]>>
      [] kind = "MapDynamicMapEntry" ->
            <<"object", [k \in DOMAIN v |->
                            <<"object", [name |-> JsonString(v[k].name),
                                         seq_num |-> JsonNumber(v[k].seq_num)]>>]>>
      [] kind = "MapCryptoMapEntry" ->
            <<"object", [k \in DOMAIN v |->
                            <<"object", [name |-> JsonString(v[k].name),
                                         seq_num |-> JsonNumber(v[k].seq_num),
                                         interface_id |->
                                            JsonOption(v[k].interface_id,
                                                       JsonString(v[k].interface_id[1]))]>>]>>

\* Deserialize of a string, of a number and of an optional one: Some(value),
\* or None where the JSON value is not of the type.
from_string(j) ==
    IF j[1] = "string" /\ is_some(parse_str(j[2]))
    THEN Some(Str(unwrap(parse_str(j[2])))) ELSE None

from_u32(j) == IF j[1] = "number" THEN parse_chars_u32(j[2]) ELSE None

from_option(j, value) ==
    IF j[1] = "null" THEN Some(None)
    ELSE IF is_none(value) THEN None ELSE Some(Some(unwrap(value)))

from_array(j) ==
    IF j[1] = "array" /\ \A i \in DOMAIN j[2] : is_some(from_string(j[2][i]))
    THEN Some([i \in DOMAIN j[2] |-> unwrap(from_string(j[2][i]))]) ELSE None

\* Deserialize: Some(value of the field), or None where the JSON value is
\* not of the kind.
from_value(kind, j) ==
    CASE kind = "String" -> from_string(j)
      [] kind = "OptString" -> from_option(j, from_string(j))
      [] kind = "Bool" -> IF j[1] = "bool" THEN Some(j[2]) ELSE None
      [] kind = "OptU32" -> from_option(j, from_u32(j))
      [] kind = "OptVecString" -> from_option(j, from_array(j))
      [] kind = "MapString" ->
            IF j[1] = "object" /\ \A k \in DOMAIN j[2] : is_some(from_string(j[2][k]))
            THEN Some([k \in DOMAIN j[2] |-> unwrap(from_string(j[2][k]))]) ELSE None
      [] kind = "MapVecString" ->
            IF j[1] = "object" /\ \A k \in DOMAIN j[2] : is_some(from_array(j[2][k]))
            THEN Some([k \in DOMAIN j[2] |-> unwrap(from_array(j[2][k]))]) ELSE None
      [] kind = "IPSecLifetime" ->
            IF /\ j[1] = "object"
               /\ is_some(from_option(j[2].seconds, from_u32(j[2].seconds)))
               /\ is_some(from_option(j[2].kilobytes, from_u32(j[2].kilobytes)))
            THEN Some([seconds |-> unwrap(from_option(j[2].seconds, from_u32(j[2].seconds))),
                       kilobytes |-> unwrap(from_option(j[2].kilobytes,
                                                        from_u32(j[2].kilobytes)))])
            ELSE None
      [] kind = "MapDynamicMapEntry" ->
            IF /\ j[1] = "object"
               /\ \A k \in DOMAIN j[2] : /\ is_some(from_string(j[2][k][2].name))
                                         /\ is_some(from_u32(j[2][k][2].seq_num))
            THEN Some([k \in DOMAIN j[2] |->
                          [name |-> unwrap(from_string(j[2][k][2].name)),
                           seq_num |-> unwrap(from_u32(j[2][k][2].seq_num))]])
            ELSE None
      [] kind = "MapCryptoMapEntry" ->
            IF /\ j[1] = "object"
               /\ \A k \in DOMAIN j[2] :
                     /\ is_some(from_string(j[2][k][2].name))
                     /\ is_some(from_u32(j[2][k][2].seq_num))
                     /\ is_some(from_option(j[2][k][2].interface_id,
                                            from_string(j[2][k][2].interface_id)))
            THEN Some([k \in DOMAIN j[2] |->
                          [name |-> unwrap(from_string(j[2][k][2].name)),
                           seq_num |-> unwrap(from_u32(j[2][k][2].seq_num)),
                           interface_id |->
                              unwrap(from_option(j[2][k][2].interface_id,
                                                 from_string(j[2][k][2].interface_id)))]])
            ELSE None

\* serde_json::to_string_pretty(config): the document, one member per field.
to_string_pretty(config) ==
    <<"json", [f \in DOMAIN FieldKinds |-> to_value(FieldKinds[f], config[f])]>>

\* serde_json::from_str::<CliConfig>(contents): Some(the configuration), or
\* None where the contents are no document, a field that is not optional is
\* missing, or a member is not of its field's type.  A missing optional field
\* is None.
from_str(contents) ==
    IF contents[1] # "json" THEN None
    ELSE LET doc == contents[2]
             field(f) == IF f \in DOMAIN doc THEN from_value(FieldKinds[f], doc[f])
                         ELSE IF FieldKinds[f] \in {"OptString", "OptU32", "OptVecString"}
                         THEN Some(None) ELSE None
         IN  IF \A f \in DOMAIN FieldKinds : is_some(field(f))
             THEN Some([f \in DOMAIN FieldKinds |-> unwrap(field(f))])
             ELSE None

StartupConfigJson == "startup-config.json"

\* How the file system answers save_config and load_config.
SaveOutcomes == {"ok", "open_err", "write_err"}

ReadOutcomes == {"ok", "open_err", "read_err"}

\* save_config: the result and the files afterwards.  The file is opened with
\* truncate, so a failed write leaves it cut short.
save_config(config, fs, io) ==
    IF io = "open_err" THEN [res |-> "Err", files |-> fs]
    ELSE IF io = "write_err"
    THEN [res |-> "Err", files |-> Insert(fs, StartupConfigJson, <<"cut">>)]
    ELSE [res |-> "Ok", files |-> Insert(fs, StartupConfigJson, to_string_pretty(config))]

\* A client that never reads the file.
load_config_fresh(fs, io) == CliConfig_default

\* load_config: the configuration of the file, or the default one where the
\* file cannot be opened, read or parsed.
load_config(fs, io) ==
    IF StartupConfigJson \in DOMAIN fs /\ io = "ok" /\ is_some(from_str(fs[StartupConfigJson]))
    THEN unwrap(from_str(fs[StartupConfigJson]))
    ELSE CliConfig_default

\* The configurations handed to save_config: the default one with the
\* hostname and the domain name set, and those with the encrypted credentials
\* and the tunnel settings set or left unset.
HostNames == {"SEM", "R\"1", "R\\1"}

Configurations ==
    { [CliConfig_default EXCEPT !.hostname = h, !.domain_name = d] :
        h \in HostNames, d \in {None, Some(""), Some("example.com")} }
    \cup
    { [CliConfig_default EXCEPT
          !.hostname = "R\"1", !.domain_name = Some("example.com"),
          !.encrypted_password = c[1], !.encrypted_secret = c[2],
          !.tunnel_mode = t[1], !.tunnel_source = t[2],
          !.tunnel_destination = t[3], !.tunnel_protection_profile = t[4]] :
        c \in {None, Some("5e884898")} \X {None, Some("2bb80d53")},
        t \in {None, Some("ipsec")} \X {None, Some("g0/0")} \X {None, Some("10.0.0.2")}
              \X {None, Some("prof1")} }

\* A client calls save_config(config).
SaveConfig(config, io) ==
    /\ \E o \in {save_config(config, files, io)} :
          /\ files' = o.files
          /\ probe' = [kind |-> "save_config", res |-> o.res,
                        config |-> IF o.res = "Ok" THEN Some(config) ELSE None]
    /\ UNCHANGED << context, clock, stores, helper_mode, replVars, dynVars, lockVars >>

\* A client calls load_config(); saved is the configuration of the call of
\* save_config just before, when there was one and it returned Ok.
LoadConfig(io) ==
    /\ probe' = [kind |-> "load_config",
                 saved |-> IF probe.kind = "save_config" THEN probe.config ELSE None,
                 io |-> io,
                 answer |-> load_config(files, io)]
    /\ UNCHANGED << progVars, replVars, dynVars, lockVars >>

NextConfig ==
    \/ \E config \in Configurations, io \in SaveOutcomes : SaveConfig(config, io)
    \/ \E io \in ReadOutcomes : LoadConfig(io)

SpecConfig == Init /\ [][NextConfig]_vars

\* C23: load_config() right after a save_config(c) that returned Ok, with the
\* file readable, returns a configuration equal to c (in every field, so in
\* the hostname, the domain name, the encrypted password and secret and the
\* tunnel mode, source, destination and protection profile).
C23_SaveLoadRoundTrip ==
    (probe.kind = "load_config" /\ is_some(probe.saved) /\ probe.io = "ok")
    => probe.answer = unwrap(probe.saved)

\* A configuration with every named field set, and a quote in the hostname,
\* was saved and loaded back.
C23_Witness ==
    /\ probe.kind = "load_config" /\ is_some(probe.saved) /\ probe.io = "ok"
    /\ probe.answer.hostname = "R\"1"
    /\ probe.answer.domain_name = Some("example.com")
    /\ probe.answer.encrypted_password = Some("5e884898")
    /\ probe.answer.encrypted_secret = Some("2bb80d53")
    /\ probe.answer.tunnel_mode = Some("ipsec")
    /\ probe.answer.tunnel_source = Some("g0/0")
    /\ probe.answer.tunnel_destination = Some("10.0.0.2")
    /\ probe.answer.tunnel_protection_profile = Some("prof1")

\* A configuration with a backslash in the hostname and the empty domain
\* name was saved and loaded back.
C23_WitnessBackslash ==
    /\ probe.kind = "load_config" /\ is_some(probe.saved) /\ probe.io = "ok"
    /\ probe.answer.hostname = "R\\1"
    /\ probe.answer.domain_name = Some("")
    /\ probe.answer.encrypted_password = None

\* C24: after a successful write memory or copy running-config
\* startup-config, the file startup-config.json holds the JSON document of
\* the session's configuration.
C24_SavePersists ==
    [][ (Dispatched /\ is_some(called') /\ result' = "ok"
            /\ \/ unwrap(called').cmd = "write"
               \/ /\ unwrap(called').cmd = "copy"
                  /\ Len(unwrap(called').args) = 2
                  /\ unwrap(called').args[2] = "startup-config")
        => (/\ StartupConfigJson \in DOMAIN files'
            /\ files'[StartupConfigJson] = to_string_pretty(context'.config)) ]_vars

\* C24, the part the code keeps: a successful save command stores the text of
\* the running configuration and the time in the configuration in memory, and
\* writes no file.
C24_SaveInMemoryOnly ==
    [][ (Dispatched /\ is_some(called') /\ result' = "ok"
            /\ \/ unwrap(called').cmd = "write"
               \/ /\ unwrap(called').cmd = "copy"
                  /\ Len(unwrap(called').args) = 2
                  /\ unwrap(called').args[2] = "startup-config")
        => (/\ files' = files
            /\ context'.config.startup_config = Some(get_running_config(St))
            /\ context'.config.last_written = Some(Now)) ]_vars

\* write memory succeeded in Privileged mode.
C24_Saved ==
    /\ pc = "loop" /\ result = "ok"
    /\ is_some(called) /\ unwrap(called).cmd = "write"
    /\ is_some(context.config.startup_config)
    /\ files = EmptyMap

\* ---- the locks of the stores ----
\* A callback, step by step: what it locks, what it unlocks (a guard is
\* dropped by drop(), at the end of its scope, or by a return out of it) and
\* where it reads the terminal.

Lock(store) == <<"lock", store>>

Unlock(store) == <<"unlock", store>>

ReadTerminal == <<"read">>

\* One guard taken and dropped.
Guarded(store) == << Lock(store), Unlock(store) >>

\* The guards of IP_ADDRESS_STATE and STATUS_MAP, dropped in reverse.
GuardedInterfaces ==
    << Lock("IP_ADDRESS_STATE"), Lock("STATUS_MAP"),
       Unlock("STATUS_MAP"), Unlock("IP_ADDRESS_STATE") >>

\* get_running_config: five guards, dropped in reverse when it returns.
get_running_config_locks ==
    << Lock("IP_ADDRESS_STATE"), Lock("STATUS_MAP"), Lock("ROUTE_TABLE"),
       Lock("OSPF_CONFIG"), Lock("ACL_STORE"),
       Unlock("ACL_STORE"), Unlock("OSPF_CONFIG"), Unlock("ROUTE_TABLE"),
       Unlock("STATUS_MAP"), Unlock("IP_ADDRESS_STATE") >>

\* An enable that keeps its guard of PASSWORD_STORAGE while it asks for the
\* password.
LockPaths_held(cmd) ==
    IF cmd = "enable"
    THEN { <<>>, Guarded("PASSWORD_STORAGE"),
           << Lock("PASSWORD_STORAGE"), ReadTerminal, Unlock("PASSWORD_STORAGE") >>,
           << Lock("PASSWORD_STORAGE"), ReadTerminal, ReadTerminal,
              Unlock("PASSWORD_STORAGE") >> }
    ELSE { <<>>, <<ReadTerminal>>, <<ReadTerminal, ReadTerminal>> }

\* The lock events of a callback, one sequence for each way through it.
LockPaths(cmd) ==
    CASE cmd = "enable" ->
            { <<>>, Guarded("PASSWORD_STORAGE"),
              Guarded("PASSWORD_STORAGE") \o <<ReadTerminal>>,
              Guarded("PASSWORD_STORAGE") \o <<ReadTerminal, ReadTerminal>> }
      [] cmd = "reload" -> { <<ReadTerminal>>, <<ReadTerminal, ReadTerminal>> }
      [] cmd = "debug" -> { <<>>, <<ReadTerminal>> }
      [] cmd = "clear" ->
            { <<>>, <<ReadTerminal>>, <<ReadTerminal>> \o Guarded("OSPF_CONFIG") }
      [] cmd = "ifconfig" -> { <<>>, Guarded("IFCONFIG_STATE") }
      [] cmd \in {"write", "copy"} -> { <<>>, get_running_config_locks }
      [] cmd = "ping" -> { <<>>, Guarded("ROUTE_TABLE") }
      [] cmd = "show" ->
            { <<>>, Guarded("IP_ADDRESS_STATE"), Guarded("OSPF_CONFIG"),
              Guarded("ROUTE_TABLE"), GuardedInterfaces, get_running_config_locks,
              Guarded("ACL_STORE") }
      [] cmd = "ip" ->
            { <<>>, Guarded("IP_ADDRESS_STATE"), Guarded("ROUTE_TABLE"),
              Guarded("ACL_STORE") }
      [] cmd \in {"shutdown", "no"} -> { <<>>, GuardedInterfaces }
      [] cmd \in {"router", "network", "neighbor", "passive-interface", "distance",
                  "router-id"} -> { <<>>, Guarded("OSPF_CONFIG") }
      [] cmd \in {"access-list", "deny", "permit"} -> { <<>>, Guarded("ACL_STORE") }
      [] cmd = "service" -> { <<>>, Guarded("PASSWORD_STORAGE") }
      [] OTHER -> { <<>> }

\* How many times the events read the terminal.
RECURSIVE CountReads(_)
CountReads(events) ==
    IF events = <<>> THEN 0
    ELSE (IF Head(events) = ReadTerminal THEN 1 ELSE 0) + CountReads(Tail(events))

\* The credentials enable password and enable secret may have stored.
StoredCredentials ==
    { [enable_password |-> p, enable_secret |-> c] :
        p \in {None, Some("pw1")}, c \in {None, Some("pw2")} }

\* The loop starts on a drawn context, in User mode with drawn credentials,
\* and reads one line.
InitLocks ==
    /\ \E m \in Modes, i \in SelectedInterfaces, stored \in StoredCredentials :
          /\ m = UserMode \/ stored = [enable_password |-> None, enable_secret |-> None]
          /\ m = UserMode => i = None
          /\ context = [InitialContext EXCEPT
                            !.current_mode = m, !.selected_interface = i,
                            !.config.enable_password = stored.enable_password,
                            !.config.enable_secret = stored.enable_secret]
          /\ PASSWORD_STORAGE = stored
    /\ clock = Some(Clock_new)
    /\ IFCONFIG_STATE =
          ("ens33" :> << unwrap(Ipv4Addr_from_str("192.168.253.135")),
                         calculate_broadcast(unwrap(Ipv4Addr_from_str("192.168.253.135")), 24) >>)
    /\ STATUS_MAP = ("ens33" :> FALSE)
    /\ IP_ADDRESS_STATE = EmptyMap
    /\ ROUTE_TABLE = EmptyMap
    /\ OSPF_CONFIG = OSPFConfig_new
    /\ ACL_STORE = EmptyMap
    /\ files = EmptyMap
    /\ DYNAMIC_COMMANDS = EmptyMap
    /\ MODE_PERMISSIONS = EmptyMap
    /\ walk = NoWalk
    /\ command_context = CommandContext_new
    /\ held = {}
    /\ run = NoRun
    /\ helper_mode = context.current_mode
    /\ pc = "loop"
    /\ status = "running"
    /\ prompt = <<>>
    /\ input = None
    /\ called = None
    /\ result = "none"
    /\ printed = Silent
    /\ typed = <<>>
    /\ nlines = MaxLines - 1
    /\ probe = NoProbe

\* execute_command is called with the line readline returned; where it calls
\* a callback, the callback starts on one of its ways.
CallbackEnter(l) ==
    /\ AtReadline
    /\ l.raw \notin {"", "exit cli"}
    /\ \E env \in EnvsFor(l) :
          \E o \in {execute_command(l, St, env)} :
              \E events \in IF is_some(o.called)
                            THEN { e \in LockPaths(unwrap(o.called).cmd) :
                                      CountReads(e) = o.r.reads }
                            ELSE { <<>> } :
                  run' = [pc |-> "callback", line |-> l, env |-> env,
                          events |-> events, pos |-> 1, outcome |-> o]
    /\ pc' = "callback"
    /\ UNCHANGED << progVars, status, prompt, input, called, result, printed, typed,
                    nlines, probe, dynVars, held >>

\* The callback takes a lock (Mutex::lock blocks while the lock is held),
\* drops a guard, or reads a line from the terminal.
LockEvent ==
    /\ pc = "callback"
    /\ run.pos <= Len(run.events)
    /\ \E e \in {run.events[run.pos]} :
          CASE e[1] = "lock" -> e[2] \notin held /\ held' = held \cup {e[2]}
            [] e[1] = "unlock" -> held' = held \ {e[2]}
            [] OTHER -> held' = held
    /\ run' = [run EXCEPT !.pos = @ + 1]
    /\ UNCHANGED << progVars, replVars, probe, dynVars >>

\* The callback returns, and with it execute_command: the state is what the
\* callback made of the state it was called in.
CallbackReturn ==
    /\ pc = "callback"
    /\ run.pos > Len(run.events)
    /\ \E o \in {run.outcome} : \E S \in {o.r.s} :
          /\ context' = S.context
          /\ clock' = S.clock
          /\ IFCONFIG_STATE' = S.IFCONFIG_STATE
          /\ STATUS_MAP' = S.STATUS_MAP
          /\ IP_ADDRESS_STATE' = S.IP_ADDRESS_STATE
          /\ ROUTE_TABLE' = S.ROUTE_TABLE
          /\ OSPF_CONFIG' = S.OSPF_CONFIG
          /\ ACL_STORE' = S.ACL_STORE
          /\ PASSWORD_STORAGE' = S.PASSWORD_STORAGE
          /\ files' = S.files
          /\ called' = o.called
          /\ result' = IF is_some(o.called) THEN o.r.res ELSE "none"
          /\ printed' = o.out
          /\ typed' = SubSeq(run.env.stdin, 1, o.r.reads)
          /\ status' = CASE o.r.res = "panic" -> "panicked"
                         [] o.r.res = "exit" -> "exited"
                         [] OTHER -> "running"
          /\ helper_mode' = IF o.r.res \in {"panic", "exit"} THEN helper_mode
                            ELSE S.context.current_mode
    /\ pc' = "loop" /\ input' = Some(run.line) /\ nlines' = nlines + 1
    /\ run' = [run EXCEPT !.pc = "returned", !.outcome = <<>>]
    /\ UNCHANGED << prompt, probe, dynVars, held >>

NextLocks ==
    \/ Prompt
    \/ \E l \in Lines : ReadEmpty(l)
    \/ \E l \in Lines : ReadExitCli(l)
    \/ \E l \in Lines : CallbackEnter(l)
    \/ LockEvent
    \/ CallbackReturn
    \/ Interrupted
    \/ ReadError

SpecLocks == InitLocks /\ [][NextLocks]_vars

\* The callback is about to read a line from the terminal.
AtTerminalRead ==
    pc = "callback" /\ run.pos <= Len(run.events) /\ run.events[run.pos] = ReadTerminal

\* C25: no lock is held where the loop is between two callbacks (a callback
\* has returned, with whatever result, or none was called yet), where the
\* loop waits at its prompt, or where a callback waits for a line from the
\* terminal.
C25_NoLockAcrossBoundary ==
    (pc \in {"loop", "readline"} \/ AtTerminalRead) => held = {}

\* enable took and dropped the lock of the credentials, asked for the
\* password, and returned a failure.
C25_Witness ==
    /\ pc = "loop" /\ run.pc = "returned"
    /\ is_some(called) /\ unwrap(called).cmd = "enable"
    /\ result = "err" /\ typed # <<>>
    /\ Lock("PASSWORD_STORAGE") \in SeqRange(run.events)
    /\ held = {}

\* clear ip ospf process waits for its confirmation, its lock not yet taken.
C25_WitnessConfirmation ==
    /\ AtTerminalRead
    /\ unwrap(run.outcome.called).cmd = "clear"
    /\ Lock("OSPF_CONFIG") \in SeqRange(run.events)

\* write memory returned Ok after get_running_config took five locks.
C25_WitnessRunningConfig ==
    /\ pc = "loop" /\ run.pc = "returned"
    /\ is_some(called) /\ unwrap(called).cmd = "write" /\ result = "ok"
    /\ run.events = get_running_config_locks
    /\ held = {}

\* A callback holds a lock.
C25_WitnessHeld == pc = "callback" /\ held # {}

\* The days of the month in the year, by the calendar.
DaysInMonth(month, year) ==
    IF month = "February"
    THEN (IF year % 4 = 0 /\ (year % 100 # 0 \/ year % 400 = 0) THEN 29 ELSE 28)
    ELSE IF month \in {"April", "June", "September", "November"} THEN 30
    ELSE 31

\* The arguments are set <hh:mm:ss> <day> <month> <year>, each of its form,
\* with hours of 24 or more, minutes or seconds of 60 or more, or a day past
\* the end of the month.
ClockSetOutOfRange(args) ==
    /\ Len(args) = 5 /\ args[1] = "set"
    /\ parse_clock_set_input(args) = <<>>
    /\ LET parts == split(Spell[args[2]], ":")
           day == unwrap(parse_unsigned(Spell[args[3]], U8Max))
           year == unwrap(parse_unsigned(Spell[args[5]], U16Max))
       IN  /\ \A i \in 1..3 : is_some(parse_chars_u32(parts[i]))
           /\ \/ unwrap(parse_chars_u32(parts[1])) >= 24
              \/ unwrap(parse_chars_u32(parts[2])) >= 60
              \/ unwrap(parse_chars_u32(parts[3])) >= 60
              \/ day > DaysInMonth(args[4], year)

\* C26: in Privileged mode, clock set with hours of 24 or more, minutes or
\* seconds of 60 or more, or a day past the end of the month returns a
\* failure, reported as Error: <message>, and leaves the clock's time and
\* date as they were.
C26_ClockSetRejects ==
    [][ (Dispatched /\ context.current_mode = PrivilegedMode
            /\ is_some(called') /\ unwrap(called').cmd = "clock"
            /\ ClockSetOutOfRange(unwrap(called').args))
        => (/\ result' = "err"
            /\ printed'.text = "Error: "
            /\ clock' = clock) ]_vars

\* C26, what the code does: on such arguments clock set returns Ok; the date
\* is as it was, and the time is the new one unless the time is out of range.
C26_ClockSetAcceptsOutOfRange ==
    [][ (Dispatched /\ context.current_mode = PrivilegedMode
            /\ is_some(called') /\ unwrap(called').cmd = "clock"
            /\ ClockSetOutOfRange(unwrap(called').args))
        => (/\ result' = "ok"
            /\ unwrap(clock').date = unwrap(clock).date
            /\ unwrap(clock').time \in {unwrap(clock).time, unwrap(called').args[2]}) ]_vars

\* clock set with the 31st of February returned Ok and set the time.
C26_TimeSetDateRefused ==
    /\ pc = "loop" /\ result = "ok"
    /\ is_some(called) /\ unwrap(called).cmd = "clock"
    /\ unwrap(called).args = <<"set", "10:30:00", "31", "February", "2025">>
    /\ unwrap(clock).time = "10:30:00" /\ unwrap(clock).date = <<>>

\* C27: in every state a run from the start in User mode reaches, Interface
\* mode has a selected interface.
C27_InterfaceModeHasSelection ==
    context.current_mode = InterfaceMode => is_some(context.selected_interface)

\* Interface mode was entered for g0/0.
C27_Witness ==
    /\ pc = "loop" /\ result = "ok"
    /\ is_some(called) /\ unwrap(called).cmd = "interface"
    /\ context.current_mode = InterfaceMode
    /\ context.selected_interface = Some("g0/0")

\* Interface mode was entered for a range, and a line was handled in it.
C27_WitnessRange ==
    /\ pc = "loop" /\ nlines = 4
    /\ is_some(called) /\ unwrap(called).cmd # "interface"
    /\ context.current_mode = InterfaceMode
    /\ context.selected_interface = Some("f0/0 - 24")

\* ---- a session with stored credentials ----
\* The loop starts in User mode with the credentials an earlier enable
\* password and enable secret have stored, and reads MaxLines - 1 lines.
InitStored ==
    /\ \E stored \in StoredCredentials :
          /\ context = [InitialContext EXCEPT
                            !.config.enable_password = stored.enable_password,
                            !.config.enable_secret = stored.enable_secret]
          /\ PASSWORD_STORAGE = stored
    /\ clock = Some(Clock_new)
    /\ IFCONFIG_STATE =
          ("ens33" :> << unwrap(Ipv4Addr_from_str("192.168.253.135")),
                         calculate_broadcast(unwrap(Ipv4Addr_from_str("192.168.253.135")), 24) >>)
    /\ STATUS_MAP = ("ens33" :> FALSE)
    /\ IP_ADDRESS_STATE = EmptyMap
    /\ ROUTE_TABLE = EmptyMap
    /\ OSPF_CONFIG = OSPFConfig_new
    /\ ACL_STORE = EmptyMap
    /\ files = EmptyMap
    /\ DYNAMIC_COMMANDS = EmptyMap
    /\ MODE_PERMISSIONS = EmptyMap
    /\ walk = NoWalk
    /\ command_context = CommandContext_new
    /\ held = {}
    /\ run = NoRun
    /\ helper_mode = UserMode
    /\ pc = "loop"
    /\ status = "running"
    /\ prompt = <<>>
    /\ input = None
    /\ called = None
    /\ result = "none"
    /\ printed = Silent
    /\ typed = <<>>
    /\ nlines = 1
    /\ probe = NoProbe

SpecStored == InitStored /\ [][Next]_vars

\* The stored credentials in the order enable asks for them.
Credentials ==
    (IF is_some(PASSWORD_STORAGE.enable_password)
     THEN <<unwrap(PASSWORD_STORAGE.enable_password)>> ELSE <<>>)
    \o (IF is_some(PASSWORD_STORAGE.enable_secret)
        THEN <<unwrap(PASSWORD_STORAGE.enable_secret)>> ELSE <<>>)

\* C28: with an enable password or an enable secret stored, a step leaves
\* User mode only through enable without arguments, for Privileged mode, with
\* the typed lines equal to the stored credentials; and enable with any other
\* typed lines returns a failure and stays in User mode.
C28_EnableNeedsCredentials ==
    [][ (context.current_mode = UserMode /\ Credentials # <<>>)
        => /\ (context'.current_mode # UserMode
                  => /\ Dispatched
                     /\ called' = Some([cmd |-> "enable", args |-> <<>>])
                     /\ context'.current_mode = PrivilegedMode
                     /\ typed' = Credentials)
           /\ (Dispatched /\ called' = Some([cmd |-> "enable", args |-> <<>>])
                  /\ typed' # Credentials
                  => result' = "err" /\ context'.current_mode = UserMode) ]_vars

\* With a password and a secret stored, enable was granted on both.
C28_Witness ==
    /\ pc = "loop" /\ result = "ok"
    /\ called = Some([cmd |-> "enable", args |-> <<>>])
    /\ context.current_mode = PrivilegedMode
    /\ typed = <<"pw1", "pw2">> /\ Credentials = <<"pw1", "pw2">>

\* With a secret stored, enable was refused on another line.
C28_WitnessRefused ==
    /\ pc = "loop" /\ result = "err"
    /\ called = Some([cmd |-> "enable", args |-> <<>>])
    /\ context.current_mode = UserMode
    /\ typed = <<"pw1">> /\ Credentials = <<"pw2">>

\* With both stored, the right password and a wrong secret were refused.
C28_WitnessHalfRight ==
    /\ pc = "loop" /\ result = "err"
    /\ called = Some([cmd |-> "enable", args |-> <<>>])
    /\ context.current_mode = UserMode
    /\ typed = <<"pw1", "pw1">> /\ Credentials = <<"pw1", "pw2">>

\* The mode exit is to lead to: Global Configuration mode from its sub-modes,
\* Privileged mode from Global Configuration mode (and from the user
\* configuration mode), User mode from Privileged mode.
ParentOfMode(mode) ==
    CASE mode.tag \in {"InterfaceMode", "VlanMode", "RouterConfigMode",
                       "ConfigStdNaclMode", "ConfigExtNaclMode"} -> ConfigMode
      [] mode.tag \in {"ConfigMode", "CryptoUserMode"} -> PrivilegedMode
      [] OTHER -> UserMode

\* The step handled the line exit.
ExitTyped == LineStep /\ unwrap(input').raw = "exit"

\* C29: in every mode but User mode that a run from the start reaches, the
\* line exit calls the exit callback, which returns Ok and moves the session
\* to the parent of the mode; in User mode it returns a failure and the mode
\* stays.
C29_ExitToParent ==
    [][ ExitTyped
        => IF context.current_mode = UserMode
           THEN /\ called' = Some([cmd |-> "exit", args |-> <<>>])
                /\ result' = "err"
                /\ context'.current_mode = UserMode
           ELSE /\ called' = Some([cmd |-> "exit", args |-> <<>>])
                /\ result' = "ok"
                /\ context'.current_mode = ParentOfMode(context.current_mode) ]_vars

\* C29, for the modes other than the user configuration mode.
C29_ExitToParentInHierarchy ==
    [][ (ExitTyped /\ context.current_mode # CryptoUserMode)
        => IF context.current_mode = UserMode
           THEN /\ called' = Some([cmd |-> "exit", args |-> <<>>])
                /\ result' = "err"
                /\ context'.current_mode = UserMode
           ELSE /\ called' = Some([cmd |-> "exit", args |-> <<>>])
                /\ result' = "ok"
                /\ context'.current_mode = ParentOfMode(context.current_mode) ]_vars

\* exit was typed in the user configuration mode: no callback was called and
\* the mode is the same.
C29_StuckInUserConfiguration ==
    /\ pc = "loop" /\ is_some(input) /\ unwrap(input).raw = "exit"
    /\ context.current_mode = CryptoUserMode
    /\ called = None

\* exit led from an access-list mode to Global Configuration mode.
C29_ExitedAccessList ==
    /\ pc = "loop" /\ is_some(input) /\ unwrap(input).raw = "exit"
    /\ result = "ok" /\ context.current_mode = ConfigMode
    /\ ACL_STORE # EmptyMap

\* ---- the modes a session can reach ----
\* The mode and the stored credentials after a line depend on the mode and
\* the stored credentials before it, the line and what is typed (C30_ModeStep
\* checks this against the runs); the modes a session can reach are computed
\* from that.

\* The state at the start of the loop, in the mode and with the credentials.
StateIn(mode, stored) ==
    [ context |-> [InitialContext EXCEPT !.current_mode = mode],
      clock |-> Some(Clock_new),
      IFCONFIG_STATE |->
          ("ens33" :> << unwrap(Ipv4Addr_from_str("192.168.253.135")),
                         calculate_broadcast(unwrap(Ipv4Addr_from_str("192.168.253.135")), 24) >>),
      STATUS_MAP |-> ("ens33" :> FALSE), IP_ADDRESS_STATE |-> EmptyMap,
      ROUTE_TABLE |-> EmptyMap, OSPF_CONFIG |-> OSPFConfig_new, ACL_STORE |-> EmptyMap,
      PASSWORD_STORAGE |-> stored, files |-> EmptyMap ]

\* The mode and the credentials after execute_command on the line.
ModeStep(mode, stored, l, env) ==
    LET o == execute_command(l, StateIn(mode, stored), env)
    IN  << o.r.s.context.current_mode, o.r.s.PASSWORD_STORAGE >>

\* What one line can make of the mode and the credentials.
ModeSuccessors(a) ==
    UNION { { ModeStep(a[1], a[2], l, env) :
                env \in IF execute_command(l, StateIn(a[1], a[2]), DefaultEnv).r.reads > 0
                        THEN Envs ELSE {DefaultEnv} } :
            l \in { x \in Lines : x.raw \notin {"", "exit cli"} } }

RECURSIVE ReachFrom(_, _)
ReachFrom(seen, frontier) ==
    IF frontier = {} THEN seen
    ELSE LET next == UNION { ModeSuccessors(a) : a \in frontier } \ seen
         IN  ReachFrom(seen \cup next, next)

\* The modes some sequence of lines leads to from the start in User mode.
ReachableModes ==
    LET start == << UserMode, [enable_password |-> None, enable_secret |-> None] >>
    IN  { a[1] : a \in ReachFrom({start}, {start}) }

ReachableTags == { m.tag : m \in ReachableModes }

\* The modes of the Mode Hierarchy.
HierarchyTags ==
    { "UserMode", "PrivilegedMode", "ConfigMode", "InterfaceMode", "VlanMode",
      "RouterConfigMode", "ConfigStdNaclMode", "ConfigExtNaclMode" }

\* The mode and the credentials after a dispatched line are what ModeStep
\* makes of the mode and the credentials before it.
C30_ModeStep ==
    [][ Dispatched
        => \E env \in Envs :
              << context'.current_mode, PASSWORD_STORAGE' >>
                  = ModeStep(context.current_mode, PASSWORD_STORAGE, unwrap(input'), env) ]_vars

\* The loop is at its start: no line was read yet.
AtStart == pc = "loop" /\ nlines = 0

\* C30: from the start in User mode, every mode of the Mode Hierarchy is
\* reached by some sequence of lines.
C30_EveryModeReachable ==
    AtStart => HierarchyTags \subseteq ReachableTags

\* C30, what the code gives: every mode of the Mode Hierarchy but VlanMode is
\* reached, and the user configuration mode besides.
C30_EveryModeButVlanReachable ==
    AtStart => ReachableTags = (HierarchyTags \ {"VlanMode"}) \cup {"CryptoUserMode"}

\* No run is in VlanMode.
C30_NeverVlanMode == context.current_mode # VlanMode

\* A run is in Router Configuration mode.
C30_ReachedRouterConfigMode == context.current_mode = RouterConfigMode

\* A run is in an extended access-list mode.
C30_ReachedExtNaclMode == context.current_mode.tag = "ConfigExtNaclMode"

\* A run is in a standard access-list mode.
C30_ReachedStdNaclMode == context.current_mode.tag = "ConfigStdNaclMode"

----------------------------------------------------------------------------
\* The access list of an access-list mode (clicommands.rs, ip access-list,
\* deny, permit)

AclTags == {"ConfigStdNaclMode", "ConfigExtNaclMode"}

\* The arguments deny and permit take in a mode of the tag without a panic
\* and without a failure for their syntax.
WellFormedRule(tag, args) ==
    IF tag = "ConfigStdNaclMode"
    THEN /\ Len(args) >= 1
         /\ is_some(Ipv4Addr_from_str(args[1]))
         /\ Len(args) > 1 => is_some(Ipv4Addr_from_str(args[2]))
    ELSE /\ Len(args) >= 5
         /\ is_some(Ipv4Addr_from_str(args[2]))
         /\ is_some(Ipv4Addr_from_str(args[5]))

\* The step ran deny or permit in an access-list mode.
RuleCalled ==
    /\ Dispatched
    /\ is_some(called')
    /\ unwrap(called').cmd \in {"deny", "permit"}
    /\ context.current_mode.tag \in AclTags

\* C31: in every state whose mode is ConfigStdNaclMode(a) or
\* ConfigExtNaclMode(a) the ACL store holds an access list under a; so deny
\* and permit with well-formed arguments in such a mode return success with
\* their entry appended to that list, every other list left alone, and no
\* deny or permit there fails with 'ACL not found'.
C31_AclModeHasList ==
    [][ /\ context.current_mode.tag \in AclTags =>
              context.current_mode.acl \in DOMAIN ACL_STORE
        /\ context'.current_mode.tag \in AclTags =>
              context'.current_mode.acl \in DOMAIN ACL_STORE'
        /\ RuleCalled =>
              LET a == context.current_mode.acl
                  c == unwrap(called')
              IN  /\ printed'.list # <<"ACL '", a, "' not found.">>
                  /\ WellFormedRule(context.current_mode.tag, c.args) =>
                        /\ result' = "ok"
                        /\ DOMAIN ACL_STORE' = DOMAIN ACL_STORE
                        /\ \A n \in DOMAIN ACL_STORE : n # a => ACL_STORE'[n] = ACL_STORE[n]
                        /\ Len(ACL_STORE'[a].entries) = Len(ACL_STORE[a].entries) + 1
                        /\ SubSeq(ACL_STORE'[a].entries, 1, Len(ACL_STORE[a].entries))
                              = ACL_STORE[a].entries
                        /\ ACL_STORE'[a].entries[Len(ACL_STORE'[a].entries)].action = c.cmd
      ]_vars

\* A deny or a permit was run in the mode of a list, and the list has its
\* entry.
C31_Witness ==
    /\ is_some(called) /\ unwrap(called).cmd \in {"deny", "permit"}
    /\ result = "ok"
    /\ context.current_mode.tag \in AclTags
    /\ ACL_STORE[context.current_mode.acl].entries # <<>>

----------------------------------------------------------------------------
\* ip route with an exit interface and a next hop (clicommands.rs, ip route)

\* The step ran ip route with four operands in Global Configuration mode and
\* the callback returned success.
RouteFourOperands ==
    /\ Dispatched /\ context.current_mode = ConfigMode
    /\ is_some(called') /\ unwrap(called').cmd = "ip"
    /\ Len(unwrap(called').args) = 5
    /\ unwrap(called').args[1] = "route"
    /\ result' = "ok"

\* The exit interface x and the next hop h as the table holds them.
ExitAndHop(x, h) == Str(Spell[x] \o <<" ">> \o Spell[RouteOperand(h)])

\* C32: ip route <destination> <netmask> <exit-interface> <next-hop> in
\* Global Configuration mode stores for the destination the netmask given
\* together with the exit interface given and the next hop given.
C32_RouteExitAndHop ==
    [][ RouteFourOperands
        => LET args == unwrap(called').args
           IN  ROUTE_TABLE'[RouteOperand(args[2])] =
                   << unwrap(Ipv4Addr_from_str(args[3])), ExitAndHop(args[4], args[5]) >> ]_vars

\* What is stored: the netmask, and the netmask typed in the place of the
\* exit interface, before the next hop.
C32_RouteNetmaskAndHop ==
    [][ RouteFourOperands
        => LET args == unwrap(called').args
           IN  ROUTE_TABLE'[RouteOperand(args[2])] =
                   << unwrap(Ipv4Addr_from_str(args[3])), ExitAndHop(args[3], args[5]) >> ]_vars

\* The route to 10.0.0.0 by eth0 and 192.168.1.1 was given, and the table
\* has no eth0.
C32_ExitInterfaceLost ==
    /\ is_some(input)
    /\ unwrap(input).raw = "ip route 10.0.0.0 255.255.255.0 eth0 192.168.1.1"
    /\ result = "ok"
    /\ ROUTE_TABLE["10.0.0.0"][2] = "255.255.255.0 192.168.1.1"

----------------------------------------------------------------------------
\* The loop after lines it has read: the sessions that begin with a fixed
\* run of lines, and go on with any lines.

\* The state of the program when main enters its loop.
StartState ==
    [ context |-> InitialContext, clock |-> Some(Clock_new),
      IFCONFIG_STATE |->
          ("ens33" :> << unwrap(Ipv4Addr_from_str("192.168.253.135")),
                         calculate_broadcast(unwrap(Ipv4Addr_from_str("192.168.253.135")), 24) >>),
      STATUS_MAP |-> ("ens33" :> FALSE), IP_ADDRESS_STATE |-> EmptyMap,
      ROUTE_TABLE |-> EmptyMap, OSPF_CONFIG |-> OSPFConfig_new, ACL_STORE |-> EmptyMap,
      PASSWORD_STORAGE |-> [enable_password |-> None, enable_secret |-> None],
      files |-> EmptyMap ]

\* The loop is at its head in the program state S, with MaxLines - n lines
\* to come.
InitIn(S, n) ==
    /\ context = S.context
    /\ clock = S.clock
    /\ IFCONFIG_STATE = S.IFCONFIG_STATE
    /\ STATUS_MAP = S.STATUS_MAP
    /\ IP_ADDRESS_STATE = S.IP_ADDRESS_STATE
    /\ ROUTE_TABLE = S.ROUTE_TABLE
    /\ OSPF_CONFIG = S.OSPF_CONFIG
    /\ ACL_STORE = S.ACL_STORE
    /\ PASSWORD_STORAGE = S.PASSWORD_STORAGE
    /\ files = S.files
    /\ DYNAMIC_COMMANDS = EmptyMap
    /\ MODE_PERMISSIONS = EmptyMap
    /\ walk = NoWalk
    /\ command_context = CommandContext_new
    /\ held = {}
    /\ run = NoRun
    /\ helper_mode = S.context.current_mode
    /\ pc = "loop"
    /\ status = "running"
    /\ prompt = <<>>
    /\ input = None
    /\ called = None
    /\ result = "none"
    /\ printed = Silent
    /\ typed = <<>>
    /\ nlines = n
    /\ probe = NoProbe

\* The state after `enable`, `configure terminal`, `interface g0/0` and
\* `ip address 10.0.0.1 255.255.255.0`: an interface is selected and has an
\* address.
InterfaceStart ==
    [StartState EXCEPT
        !.context.current_mode = InterfaceMode,
        !.context.prompt = <<CliConfig_default.hostname, "(config-if)#">>,
        !.context.selected_interface = Some("g0/0"),
        !.IP_ADDRESS_STATE =
            ("g0/0" :> << unwrap(Ipv4Addr_from_str("10.0.0.1")),
                          unwrap(Ipv4Addr_from_str("255.255.255.0")) >>)]

InitInterface == InitIn(InterfaceStart, 1)

\* The loop of Spec has come to that state.
InterfaceStartReached == pc = "loop" /\ St = InterfaceStart

SpecInterface == InitInterface /\ [][Next]_vars

----------------------------------------------------------------------------
\* shutdown and no shutdown (clicommands.rs, shutdown and no)

\* The step ran shutdown (up = FALSE) or no shutdown (up = TRUE) in
\* Interface mode on a selected interface that has an address.
StatusSet(up) ==
    /\ Dispatched
    /\ is_some(called')
    /\ unwrap(called') = IF up THEN [cmd |-> "no", args |-> <<"shutdown">>]
                         ELSE [cmd |-> "shutdown", args |-> <<>>]
    /\ context.current_mode = InterfaceMode
    /\ is_some(context.selected_interface)
    /\ unwrap(context.selected_interface) \in DOMAIN IP_ADDRESS_STATE

C33_WitnessUp ==
    /\ nlines >= 3
    /\ called = Some([cmd |-> "no", args |-> <<"shutdown">>]) /\ result = "ok"
    /\ context.selected_interface = Some("g0/0")
    /\ STATUS_MAP["g0/0"] = TRUE
    /\ STATUS_MAP["ens33"] = FALSE

----------------------------------------------------------------------------
\* show in the two EXEC modes (clicommands.rs, show)

ShowOnlyInExec ==
    "Show commands are only available in User EXEC mode and Privileged EXEC mode."

\* The subcommands of show that need no privilege.
ShowRecognised == { <<"clock">>, <<"uptime">>, <<"version">>, <<"ip", "route">> }

\* The step ran show.
ShowCalled == Dispatched /\ is_some(called') /\ unwrap(called').cmd = "show"

\* C34: show is available in User EXEC mode and in Privileged EXEC mode: in
\* User mode show clock, show uptime, show version and show ip route return
\* success as they do in Privileged mode, and show fails as 'only available
\* in User EXEC mode and Privileged EXEC mode' in the other modes only.
C34_ShowInUserMode ==
    [][ ShowCalled =>
          LET args == unwrap(called').args
          IN  /\ printed' = Printed("Error: ", <<ShowOnlyInExec>>) =>
                    context.current_mode \notin {UserMode, PrivilegedMode}
              /\ (context.current_mode = UserMode /\ args \in ShowRecognised) =>
                    /\ result' = "ok"
                    /\ result' = exec_show(args, [St EXCEPT !.context.current_mode = PrivilegedMode],
                                           DefaultEnv).res
      ]_vars

\* What show does: outside Privileged mode it fails as 'only available ...',
\* in User mode too, once the subcommand has printed what it prints there;
\* in Privileged mode it never fails so.
C34_ShowInPrivilegedModeOnly ==
    [][ ShowCalled =>
          LET args == unwrap(called').args
          IN  /\ (context.current_mode = UserMode /\ args \in ShowRecognised) =>
                    /\ result' = "err"
                    /\ printed' = Printed("Error: ", <<ShowOnlyInExec>>)
                    /\ exec_show(args, [St EXCEPT !.context.current_mode = PrivilegedMode],
                                 DefaultEnv).res = "ok"
              /\ context.current_mode = PrivilegedMode =>
                    printed' # Printed("Error: ", <<ShowOnlyInExec>>)
      ]_vars

\* show clock was typed in User mode and failed.
C34_ShowClockRefused ==
    /\ is_some(input) /\ unwrap(input).raw = "show clock"
    /\ context.current_mode = UserMode
    /\ called = Some([cmd |-> "show", args |-> <<"clock">>])
    /\ result = "err"
    /\ printed = Printed("Error: ", <<ShowOnlyInExec>>)

----------------------------------------------------------------------------
\* show startup-config after write memory (clicommands.rs, write and show)

\* default_startup_config: the text of a router that was never configured
default_startup_config ==
    [ service |-> "no service password-encryption", hostname |-> "Router",
      encrypted_password |-> <<>>, encrypted_secret |-> <<>>,
      interface |-> "FastEthernet0/0", ip_address |-> "no ip address",
      shutdown_status |-> "shutdown", route_entries |-> EmptyMap,
      ospf_process_id |-> None, ospf_interface |-> <<>>, ospf_network_configs |-> <<>>,
      acl_configs |-> EmptyMap ]

\* What the arm startup-config of show prints under its heading.
show_startup_config(S) ==
    IF is_some(S.context.config.last_written) THEN get_running_config(S)
    ELSE default_startup_config

\* The state after `enable`, `configure terminal`, `write memory` and
\* `hostname R1`: the configuration of the start was saved, and the hostname
\* was changed since.
SavedStart ==
    [StartState EXCEPT
        !.context.current_mode = ConfigMode,
        !.context.prompt = <<"R1", "(config)#">>,
        !.context.config.hostname = "R1",
        !.context.config.startup_config = Some(get_running_config(StartState)),
        !.context.config.last_written = Some(Now)]

InitSaved == InitIn(SavedStart, 2)

SpecSaved == InitSaved /\ [][Next]_vars

\* The loop of Spec has come to that state.
SavedStartReached == pc = "loop" /\ St = SavedStart

\* The step ran show startup-config in Privileged mode after a save.
ShowStartupCalled ==
    /\ Dispatched
    /\ called' = Some([cmd |-> "show", args |-> <<"startup-config">>])
    /\ context.current_mode = PrivilegedMode
    /\ is_some(context.config.last_written)

\* C35: after write memory, show startup-config displays the configuration
\* as it was at the time of the save: what was changed since does not appear
\* in it until the next save.
C35_StartupConfigAsSaved ==
    [][ ShowStartupCalled =>
            /\ result' = "ok"
            /\ show_startup_config(St) = unwrap(context.config.startup_config) ]_vars

\* What show startup-config displays after a save whatever was changed
\* since: the hostname, the routes and the access lists of the moment.
C35_StartupConfigAsRunning ==
    [][ ShowStartupCalled =>
            /\ result' = "ok"
            /\ show_startup_config(St).hostname = context.config.hostname
            /\ show_startup_config(St).route_entries = ROUTE_TABLE
            /\ show_startup_config(St).acl_configs = ACL_STORE ]_vars

\* The hostname was changed after the save, and show startup-config was
\* typed: it has the new hostname, the saved configuration the old one.
C35_ShownAfterChange ==
    /\ called = Some([cmd |-> "show", args |-> <<"startup-config">>])
    /\ result = "ok"
    /\ is_some(context.config.startup_config)
    /\ unwrap(context.config.startup_config).hostname = "SEM"
    /\ show_startup_config(St).hostname = "R1"

----------------------------------------------------------------------------
\* Tab completion (commandcompleter.rs) against the dispatcher

\* is_command_allowed_in_mode of commandcompleter.rs
completer_is_command_allowed_in_mode(command, mode) ==
    CASE mode.tag = "UserMode" ->
            command \in {"enable", "reload", "exit", "clear", "help", "show", "ping"}
      [] mode.tag = "PrivilegedMode" ->
            command \in {"configure", "reload", "debug", "undebug", "exit", "clear", "help",
                         "write", "copy", "clock", "ping", "show", "ifconfig"}
      [] mode.tag = "ConfigMode" ->
            command \in {"hostname", "reload", "interface", "ip", "no", "exit", "clear",
                         "tunnel", "virtual-template", "help", "write", "ping", "vlan",
                         "access-list", "router", "enable", "service", "set", "ifconfig",
                         "ntp", "crypto"}
      [] mode.tag = "InterfaceMode" ->
            command \in {"exit", "reload", "shutdown", "no", "switchport", "clear", "help",
                         "write", "interface", "ip"}
      [] mode.tag = "VlanMode" ->
            command \in {"name", "exit", "reload", "clear", "help", "state", "vlan"}
      [] mode.tag = "RouterConfigMode" ->
            command \in {"network", "reload", "exit", "clear", "help", "neighbor", "area",
                         "passive-interface", "distance", "default-information", "router-id"}
      [] mode.tag \in {"ConfigStdNaclMode", "ConfigExtNaclMode"} ->
            command \in {"deny", "permit", "reload", "help", "exit", "clear", "ip"}
      [] OTHER -> FALSE

\* CommandCompleter::complete for a query of no token, or of one token with
\* no blank after it: the commands of the registry the mode allows, those
\* the token starts when there is one (the candidates come in the order of
\* the HashMap; they are taken as a set).
complete(query, current_mode) ==
    LET allowed_commands ==
            { command \in SeqRange(RegistryKeys) :
                completer_is_command_allowed_in_mode(command, current_mode) }
    IN  IF split_whitespace(trim_end(Spell[query])) = <<>> THEN allowed_commands
        ELSE { command_name \in allowed_commands : starts_with(command_name, query) }

\* The queries a completion is asked for: nothing typed, or the start of a
\* command.
Queries == PrefixPool \cup {"interface", "ip", "no", "c"}

\* C36: at the prompt, tab completion and dispatch agree on what is legal:
\* the completer offers a registered command as a completion of what was
\* typed exactly when the command is among the commands execute_command
\* sees in the current mode and starts with what was typed.
C36_CompleterAgrees ==
    pc = "readline" =>
        \A query \in Queries :
            complete(query, helper_mode)
                = { c \in SeqRange(get_mode_commands(RegistryKeys, context.current_mode)) :
                        starts_with(c, query) }

\* The same but for interface in Interface mode.
C36_CompleterAgreesButInterface ==
    pc = "readline" =>
        \A query \in Queries :
            complete(query, helper_mode)
                \ (IF helper_mode = InterfaceMode THEN {"interface"} ELSE {})
                = { c \in SeqRange(get_mode_commands(RegistryKeys, context.current_mode)) :
                        starts_with(c, query) }

\* At the prompt of Interface mode the completer offers interface, which
\* execute_command does not see there.
C36_InterfaceOffered ==
    /\ pc = "readline"
    /\ context.current_mode = InterfaceMode
    /\ "interface" \in complete("", helper_mode)
    /\ ~Contains(get_mode_commands(RegistryKeys, context.current_mode), "interface")

----------------------------------------------------------------------------
\* The NTP servers and their associations (clicommands.rs, ntp and no)

\* The places of the association list that hold the address.
AssociationsOf(address) ==
    { i \in DOMAIN context.ntp_associations : context.ntp_associations[i].address = address }

\* C37: after any ntp server and no ntp server commands the association
\* list has exactly one association for each address of the server set and
\* none for any other address.
C37_OneAssociationPerServer ==
    /\ \A address \in context.ntp_servers : Cardinality(AssociationsOf(address)) = 1
    /\ \A i \in DOMAIN context.ntp_associations :
          context.ntp_associations[i].address \in context.ntp_servers

\* What holds: the addresses of the association list are those of the
\* server set, each once or more.
C37_AssociationsOfServers ==
    { context.ntp_associations[i].address : i \in DOMAIN context.ntp_associations }
        = context.ntp_servers

\* ntp server was given twice for one address: one server, two
\* associations.
C37_DuplicateAssociation ==
    /\ called = Some([cmd |-> "ntp", args |-> <<"server", "10.0.0.1">>])
    /\ result = "ok"
    /\ context.ntp_servers = {"10.0.0.1"}
    /\ Len(context.ntp_associations) = 2

----------------------------------------------------------------------------
\* The enable password, the enable secret and their hashes (clicommands.rs,
\* enable and service; network_config.rs, set_enable_password)

\* The hash the configuration should hold for a stored credential.
HashOf(stored) == IF is_some(stored) THEN Some(encrypt_password(unwrap(stored))) ELSE None

\* The enable password and secret of the configuration are those of the
\* password store.
ConfigHasStored ==
    /\ context.config.enable_password = PASSWORD_STORAGE.enable_password
    /\ context.config.enable_secret = PASSWORD_STORAGE.enable_secret

\* C38: whenever password encryption is enabled, the encrypted password
\* and the encrypted secret of the configuration are the hashes of the
\* enable password and the enable secret stored at the moment; and the
\* enable password and secret of the configuration are always those of the
\* password store.
C38_HashesOfStored ==
    /\ ConfigHasStored
    /\ context.config.password_encryption =>
          /\ context.config.encrypted_password = HashOf(PASSWORD_STORAGE.enable_password)
          /\ context.config.encrypted_secret = HashOf(PASSWORD_STORAGE.enable_secret)

\* What holds: the configuration has the stored credentials, and the hashes
\* are those of the credentials stored when service password-encryption was
\* last run, which leaves a hash alone when nothing is stored.
C38_HashesAtService ==
    [][ /\ ConfigHasStored'
        /\ (Dispatched /\ called' = Some([cmd |-> "service", args |-> <<"password-encryption">>])
                /\ result' = "ok")
           => /\ context'.config.password_encryption
              /\ context'.config.encrypted_password =
                    IF is_some(PASSWORD_STORAGE.enable_password)
                    THEN HashOf(PASSWORD_STORAGE.enable_password)
                    ELSE context.config.encrypted_password
              /\ context'.config.encrypted_secret =
                    IF is_some(PASSWORD_STORAGE.enable_secret)
                    THEN HashOf(PASSWORD_STORAGE.enable_secret)
                    ELSE context.config.encrypted_secret
        /\ ~(Dispatched /\ is_some(called') /\ unwrap(called').cmd = "service")
           => /\ context'.config.encrypted_password = context.config.encrypted_password
              /\ context'.config.encrypted_secret = context.config.encrypted_secret
      ]_vars

\* Encryption was enabled, then an enable password was set: it is stored,
\* and the configuration has no hash of it.
C38_PasswordNotHashed ==
    /\ context.config.password_encryption
    /\ PASSWORD_STORAGE.enable_password = Some("pw1")
    /\ context.config.encrypted_password = None

----------------------------------------------------------------------------
\* CommandContext::execute_command (walkup.rs): the call walks up from the
\* current mode, then moves to the mode found or fails.  main builds no
\* CommandContext; its fields are public, and a client sets current_mode.

\* An execute_command that leaves for User mode when nothing is found.
CommandContext_execute_command_reset(self, found) ==
    IF is_some(found)
    THEN [self EXCEPT !.current_mode = unwrap(found), !.pc = "idle", !.result = "ok"]
    ELSE [self EXCEPT !.current_mode = UserMode, !.pc = "idle", !.result = "err"]

\* The match of execute_command on what walkup_find_command returned.
CommandContext_execute_command(self, found) ==
    IF is_some(found)
    THEN [self EXCEPT !.current_mode = unwrap(found), !.pc = "idle", !.result = "ok"]
    ELSE [self EXCEPT !.pc = "idle", !.result = "err"]

\* A client puts the context into a mode.
ContextSetMode(mode) ==
    /\ command_context.pc = "idle" /\ walk.pc # "loop"
    /\ command_context' = [CommandContext_new EXCEPT !.current_mode = mode]
    /\ walk' = NoWalk
    /\ probe' = NoProbe
    /\ UNCHANGED << progVars, replVars, DYNAMIC_COMMANDS, MODE_PERMISSIONS, lockVars >>

\* execute_command is called: it calls walkup_find_command on a clone of
\* the current mode.
ContextExecute(command) ==
    /\ command_context.pc = "idle" /\ walk.pc # "loop"
    /\ command_context' = [command_context EXCEPT !.pc = "walking", !.command = command,
                                                  !.entered = command_context.current_mode,
                                                  !.result = "none"]
    /\ walk' = [pc |-> "loop", initial_mode |-> command_context.current_mode,
                command |-> command, current_mode |-> command_context.current_mode,
                examined |-> 0, found |-> None]
    /\ probe' = NoProbe
    /\ UNCHANGED << progVars, replVars, DYNAMIC_COMMANDS, MODE_PERMISSIONS, lockVars >>

\* walkup_find_command has returned, and execute_command returns.
ContextReturn ==
    /\ command_context.pc = "walking" /\ walk.pc = "done"
    /\ command_context' = CommandContext_execute_command(command_context, walk.found)
    /\ walk' = NoWalk
    /\ UNCHANGED << progVars, replVars, probe, DYNAMIC_COMMANDS, MODE_PERMISSIONS, lockVars >>

\* The registrations of the client of the context, which registers between
\* its calls of execute_command.
ContextRegistrations == { Some(<<UserMode>>), Some(<<ConfigMode>>) }

NextContext ==
    \/ /\ command_context.pc = "idle"
       /\ \E allowed_modes \in ContextRegistrations : RegisterCommand("hello", allowed_modes)
    \/ \E mode \in WalkModes : ContextSetMode(mode)
    \/ \E command \in WalkCommands : ContextExecute(command)
    \/ WalkupIterate
    \/ ContextReturn

SpecContext == InitWalkup /\ [][NextContext]_vars

\* A call of execute_command returns.
ContextReturns == command_context.pc = "walking" /\ command_context'.pc = "idle"

\* C39: when the walk-up finds the command legal in the current mode or in
\* a mode above it, execute_command returns success and the current mode
\* becomes the mode the command was found in, a mode of the chain of the
\* mode the call began in and one the command is legal in; when the
\* walk-up finds no mode, the call returns a failure and the current mode
\* is what it was.
C39_ExecuteWalksUp ==
    [][ ContextReturns =>
          LET chain == Chain(command_context.entered)
          IN  IF is_some(walk.found)
              THEN /\ command_context'.result = "ok"
                   /\ command_context'.current_mode = unwrap(walk.found)
                   /\ \E i \in DOMAIN chain : chain[i] = command_context'.current_mode
                   /\ Legal(command_context.command, command_context'.current_mode)
              ELSE /\ command_context'.result = "err"
                   /\ command_context'.current_mode = command_context.current_mode
                   /\ command_context'.current_mode = command_context.entered
      ]_vars

\* hostname was executed in Interface mode: found in Global Configuration
\* mode, which is the mode now.
C39_Witness ==
    /\ command_context.pc = "idle" /\ command_context.result = "ok"
    /\ command_context.command = "hostname"
    /\ command_context.entered = InterfaceMode
    /\ command_context.current_mode = ConfigMode

\* xyz was executed in Router Configuration mode: a failure, and the mode
\* is Router Configuration mode.
C39_WitnessNone ==
    /\ command_context.pc = "idle" /\ command_context.result = "err"
    /\ command_context.command = "xyz"
    /\ command_context.entered = RouterConfigMode
    /\ command_context.current_mode = RouterConfigMode

----------------------------------------------------------------------------
\* What the help paths reveal (execute.rs, execute_command)

\* The step handled a help line of one or two tokens and printed a list of
\* subcommands or of options.
HelpListed ==
    /\ Dispatched
    /\ unwrap(input').q
    /\ Len(unwrap(input').toks) \in {1, 2}
    /\ printed'.text = "Possible completions:"

\* C40: the help paths reveal only what is legal in the current mode: for a
\* help line of one or two tokens the suggestions1 or the options of a
\* command are printed only if the command is among the commands of the
\* current mode.
C40_HelpOfVisibleOnly ==
    [][ HelpListed =>
            Contains(get_mode_commands(RegistryKeys, context.current_mode),
                     unwrap(input').toks[1]) ]_vars

\* What is printed: the list of a registered command; of a command that is
\* not among those of the mode, or after a blank, its options, and never
\* its suggestions1.
C40_HelpOfRegistered ==
    [][ HelpListed =>
          LET c == unwrap(input').toks[1]
          IN  /\ c \in SeqRange(RegistryKeys)
              /\ ~Contains(get_mode_commands(RegistryKeys, context.current_mode), c)
                    => /\ is_some(options[c])
                       /\ printed'.list = unwrap(options[c]) ]_vars

\* `hostname ?` was typed in User mode, and the options of hostname were
\* printed.
C40_OptionsRevealed ==
    /\ is_some(input) /\ unwrap(input).raw = "hostname ?"
    /\ context.current_mode = UserMode
    /\ printed = Printed("Possible completions:", <<"<new-hostname>">>)

====
